---------------------------- MODULE Spec2Model ----------------------------
(* A model of the time-tracking and billing ingestion pipelines of the    *)
(* repository (clean_gusto_multi.py, quickbooks_parser.py).                *)
(*                                                                         *)
(* Text is modelled as a sequence of one-character strings, so that the    *)
(* substring tests, splits and regular expressions of the source are       *)
(* computed character by character.  A table cell read by pandas is a      *)
(* record [t, s, v]: t = "nan" (missing), "str" (text s) or "num" (the     *)
(* number v of a column pandas inferred as numeric); Python's None is      *)
(* t = "none".                                                             *)
EXTENDS Integers, Sequences, FiniteSets, TLC

(***************************************************************************)
(* Characters and text primitives (Python str methods).                    *)
(***************************************************************************)
UpperChars == <<"A","B","C","D","E","F","G","H","I","J","K","L","M",
                "N","O","P","Q","R","S","T","U","V","W","X","Y","Z">>
LowerChars == <<"a","b","c","d","e","f","g","h","i","j","k","l","m",
                "n","o","p","q","r","s","t","u","v","w","x","y","z">>
DigitChars == <<"0","1","2","3","4","5","6","7","8","9">>

IsUpper(c) == \E i \in 1..26 : UpperChars[i] = c
IsLower(c) == \E i \in 1..26 : LowerChars[i] = c
IsAlpha(c) == IsUpper(c) \/ IsLower(c)
IsDigit(c) == \E i \in 1..10 : DigitChars[i] = c
DigitVal(c) == (CHOOSE i \in 1..10 : DigitChars[i] = c) - 1
IsSpace(c) == c \in {" ", "\t", "\n", "\r"}
\* \w of the re module (ASCII part)
IsWord(c) == IsAlpha(c) \/ IsDigit(c) \/ c = "_"

Lower(c) == IF IsUpper(c) THEN LowerChars[CHOOSE i \in 1..26 : UpperChars[i] = c] ELSE c
Upper(c) == IF IsLower(c) THEN UpperChars[CHOOSE i \in 1..26 : LowerChars[i] = c] ELSE c
LowerStr(s) == [i \in 1..Len(s) |-> Lower(s[i])]
UpperStr(s) == [i \in 1..Len(s) |-> Upper(s[i])]

\* p occurs in s starting at index i
MatchAt(s, p, i) ==
    /\ i >= 1
    /\ i + Len(p) - 1 <= Len(s)
    /\ \A j \in 1..Len(p) : s[i + j - 1] = p[j]

\* Python: p in s
Contains(s, p) == \E i \in 1..(Len(s) - Len(p) + 1) : MatchAt(s, p, i)

\* Python: s.startswith(p)
StartsWith(s, p) == MatchAt(s, p, 1)

RECURSIVE LStrip(_)
LStrip(s) == IF s # <<>> /\ IsSpace(Head(s)) THEN LStrip(Tail(s)) ELSE s

RECURSIVE RStrip(_)
RStrip(s) == IF s # <<>> /\ IsSpace(s[Len(s)]) THEN RStrip(SubSeq(s, 1, Len(s) - 1)) ELSE s

\* Python: s.strip()
Strip(s) == RStrip(LStrip(s))

\* f itself, as a table of its values: TLC then computes each value once
Stored(f) == f @@ <<>>

\* F(x) for x the value of e, that is LET x == e IN F(x) with e computed
\* once; Given2 binds two values
Given(e, F(_)) == CHOOSE r \in {F(x) : x \in {e}} : TRUE
Given2(e1, e2, F(_, _)) == CHOOSE r \in {F(x, y) : x \in {e1}, y \in {e2}} : TRUE

\* the least element of a non-empty set of numbers
Least(P) == CHOOSE i \in P : \A j \in P : i <= j

\* the greatest element of a non-empty set of numbers
Greatest(P) == CHOOSE i \in P : \A j \in P : j <= i

\* the positions of the set P in ascending order
Ascending(P) ==
    LET members == P \cup {}
        rank == Stored([i \in members |-> Cardinality({j \in members : j < i})])
    IN  Stored([k \in 1..Cardinality(members) |-> CHOOSE i \in members : rank[i] = k - 1])

\* the pieces of s between the separator positions sep (ascending)
PiecesBetween(s, sep) ==
    [k \in 1..(Len(sep) + 1) |->
        SubSeq(s, IF k = 1 THEN 1 ELSE sep[k - 1] + 1,
                  IF k = Len(sep) + 1 THEN Len(s) ELSE sep[k] - 1)]

\* Python: s.split(c) for a one-character separator c
Split(s, c) == PiecesBetween(s, Ascending({i \in 1..Len(s) : s[i] = c}))

RECURSIVE Join(_, _)
\* Python: sep.join(parts)
Join(parts, sep) ==
    IF parts = <<>> THEN <<>>
    ELSE IF Len(parts) = 1 THEN parts[1]
    ELSE parts[1] \o sep \o Join(Tail(parts), sep)

\* the elements of seq that satisfy Keep, in order
RECURSIVE NonEmptyStripped(_)
NonEmptyStripped(parts) ==
    IF parts = <<>> THEN <<>>
    ELSE IF Strip(Head(parts)) # <<>>
         THEN <<Strip(Head(parts))>> \o NonEmptyStripped(Tail(parts))
         ELSE NonEmptyStripped(Tail(parts))

\* number of leading decimal digits of s from index i, at most max
RECURSIVE DigitRun(_, _, _)
DigitRun(s, i, max) ==
    IF max = 0 \/ i > Len(s) \/ ~IsDigit(s[i]) THEN 0
    ELSE 1 + DigitRun(s, i + 1, max - 1)

\* number of whitespace characters of s from index i
RECURSIVE SpaceRun(_, _)
SpaceRun(s, i) ==
    IF i > Len(s) \/ ~IsSpace(s[i]) THEN 0 ELSE 1 + SpaceRun(s, i + 1)

\* the position after the whitespace of s from i
AfterSpaces(s, i) == i + SpaceRun(s, i)

RECURSIVE NumVal(_)
\* the value of a string of decimal digits
NumVal(s) == IF s = <<>> THEN 0 ELSE 10 * NumVal(SubSeq(s, 1, Len(s) - 1)) + DigitVal(s[Len(s)])

(***************************************************************************)
(* Values: cells of a parsed table, None.  A number is held in thousandths *)
(* (v = 1500 is 1.5): t = "num" is a float, t = "int" an integer.          *)
(***************************************************************************)
NaN == [t |-> "nan", s |-> <<>>, v |-> 0]
None == [t |-> "none", s |-> <<>>, v |-> 0]
Str(x) == [t |-> "str", s |-> x, v |-> 0]
Num(n) == [t |-> "num", s |-> <<>>, v |-> n]
IntNum(n) == [t |-> "int", s |-> <<>>, v |-> n]
IsNumber(x) == x.t \in {"num", "int"}
\* pd.isna
isna(x) == x.t \in {"nan", "none"}

RECURSIVE IntToStr(_)
\* Python: str(n) for an integer n >= 0
IntToStr(n) == IF n < 10 THEN <<DigitChars[n + 1]>> ELSE Append(IntToStr(n \div 10), DigitChars[(n % 10) + 1])

\* the decimals of f thousandths without trailing zeros, at least one digit
Decimals(f) ==
    IF f % 100 = 0 THEN IntToStr(f \div 100)
    ELSE IF f % 10 = 0 THEN IntToStr(f \div 100) \o IntToStr((f \div 10) % 10)
    ELSE IntToStr(f \div 100) \o IntToStr((f \div 10) % 10) \o IntToStr(f % 10)

\* Python: str(x), for the values a cell or a field can hold (x >= 0)
pystr(x) ==
    IF x.t = "str" THEN x.s
    ELSE IF x.t = "none" THEN <<"N","o","n","e">>
    ELSE IF x.t = "nan" THEN <<"n","a","n">>
    ELSE IF x.t = "int" THEN IntToStr(x.v \div 1000)
    ELSE IntToStr(x.v \div 1000) \o <<".">> \o Decimals(x.v % 1000)


(***************************************************************************)
(* A call that may raise returns [raised, val].                            *)
(***************************************************************************)
Ok(x) == [raised |-> FALSE, val |-> x]
Raised == [raised |-> TRUE, val |-> None]

\* first index of character c in s, or 0
FirstIdx(s, c) ==
    IF \E i \in 1..Len(s) : s[i] = c
    THEN CHOOSE i \in 1..Len(s) : s[i] = c /\ \A j \in 1..(i - 1) : s[j] # c
    ELSE 0

\* first index of a whitespace character in s, or 0
FirstSpace(s) ==
    IF \E i \in 1..Len(s) : IsSpace(s[i])
    THEN CHOOSE i \in 1..Len(s) : IsSpace(s[i]) /\ \A j \in 1..(i - 1) : ~IsSpace(s[j])
    ELSE 0

(***************************************************************************)
(* datetime.strptime with "%I:%M %p" (colon) or "%I %p": minutes since     *)
(* midnight, or -1 for ValueError.  %I is 1[0-2]|0[1-9]|[1-9], %M is       *)
(* [0-5]\d|\d, a blank of the format is \s+, %p is am|pm in any case, and  *)
(* the whole string must be consumed.                                      *)
(***************************************************************************)
HourOK(h) ==
    \/ Len(h) = 1 /\ IsDigit(h[1]) /\ h[1] # "0"
    \/ Len(h) = 2 /\ h[1] = "0" /\ IsDigit(h[2]) /\ h[2] # "0"
    \/ Len(h) = 2 /\ h[1] = "1" /\ h[2] \in {"0", "1", "2"}
MinuteOK(m) ==
    \/ Len(m) = 1 /\ IsDigit(m[1])
    \/ Len(m) = 2 /\ m[1] \in {"0", "1", "2", "3", "4", "5"} /\ IsDigit(m[2])
MeridiemOK(p) == LowerStr(p) \in {<<"a","m">>, <<"p","m">>}

strptime(s, colon) ==
    Given(IF colon THEN FirstIdx(s, ":") ELSE FirstSpace(s), LAMBDA hourEnd :
      IF hourEnd = 0 THEN -1 ELSE
    Given2(SubSeq(s, 1, hourEnd - 1), SubSeq(s, hourEnd + 1, Len(s)), LAMBDA hour, rest :
      IF ~HourOK(hour) THEN -1 ELSE
    Given(IF colon THEN FirstSpace(rest) ELSE 0, LAMBDA sp :
      IF colon /\ sp = 0 THEN -1 ELSE
    \* mer: the text after the blank(s) that precede the meridiem
    Given2(SubSeq(rest, 1, sp - 1),
           IF colon THEN SubSeq(rest, sp + SpaceRun(rest, sp), Len(rest))
           ELSE SubSeq(s, hourEnd + SpaceRun(s, hourEnd), Len(s)), LAMBDA minute, mer :
      IF colon /\ ~MinuteOK(minute) THEN -1
      ELSE IF ~MeridiemOK(mer) THEN -1
      ELSE ((NumVal(hour) % 12) + (IF LowerStr(mer) = <<"p","m">> THEN 12 ELSE 0)) * 60
           + (IF colon THEN NumVal(minute) ELSE 0)))))

\* round(seconds / 3600, 3), in thousandths of an hour, for a whole number
\* of minutes (minutes * 50 / 3 is never half-way between two integers)
RoundHours(minutes) == (100 * minutes + 3) \div 6

\* estimate_hours without the step to the next day when the end is before
\* the start: the time between the two clocks
estimate_hours_same_day(time_range) ==
    IF isna(time_range) THEN Ok(None)
    ELSE IF IsNumber(time_range) THEN Raised
    ELSE IF ~Contains(time_range.s, <<"-">>) THEN Ok(None)
    ELSE Given(Split(time_range.s, "-"), LAMBDA parts :
           IF Len(parts) # 2 THEN Ok(None) ELSE
         Given2(Strip(parts[1]), Strip(parts[2]), LAMBDA start, end :
         Given(Contains(start, <<":">>), LAMBDA colon :
         Given2(strptime(start, colon), strptime(end, colon), LAMBDA start_dt, end_dt :
           IF start_dt < 0 \/ end_dt < 0 THEN Ok(None)
           ELSE IF end_dt < start_dt
                THEN Ok(Num(RoundHours(start_dt - end_dt)))
                ELSE Ok(Num(RoundHours(end_dt - start_dt)))))))

\* estimate_hours: the duration in thousandths of an hour as Num, None when
\* unparseable; raises for a numeric cell ("-" not in <number>, before try)
estimate_hours(time_range) ==
    IF isna(time_range) THEN Ok(None)
    ELSE IF IsNumber(time_range) THEN Raised
    ELSE IF ~Contains(time_range.s, <<"-">>) THEN Ok(None)
    ELSE Given(Split(time_range.s, "-"), LAMBDA parts :
           IF Len(parts) # 2 THEN Ok(None) ELSE
         Given2(Strip(parts[1]), Strip(parts[2]), LAMBDA start, end :
         Given(Contains(start, <<":">>), LAMBDA colon :
         Given2(strptime(start, colon), strptime(end, colon), LAMBDA start_dt, end_dt :
           IF start_dt < 0 \/ end_dt < 0 THEN Ok(None)
           ELSE IF end_dt < start_dt
                THEN Ok(Num(RoundHours(end_dt + 1440 - start_dt)))
                ELSE Ok(Num(RoundHours(end_dt - start_dt)))))))

(***************************************************************************)
(* The time-range regular expressions of the note functions.               *)
(***************************************************************************)
\* \d{1,2}:\d{2} at index i: the index after the match, or 0
ClockEnd(s, i) ==
    LET r == DigitRun(s, i, 2) IN
    IF r >= 1 /\ i + r <= Len(s) /\ s[i + r] = ":" /\ DigitRun(s, i + r + 1, 2) = 2
    THEN i + r + 3 ELSE 0

IsApm(c) == c \in {"A", "P", "M", "a", "p", "m"}

\* (?:\s?[APMapm]{2})? at index j (anySpace) or (?: ?[APMapm]{2})?: the
\* index after the group, j when the group does not match
MeridiemEnd(s, j, anySpace) ==
    LET blank == j <= Len(s) /\ (IF anySpace THEN IsSpace(s[j]) ELSE s[j] = " ")
        k == IF blank THEN j + 1 ELSE j
        two(m) == m + 1 <= Len(s) /\ IsApm(s[m]) /\ IsApm(s[m + 1])
    IN  IF two(k) THEN k + 2 ELSE IF two(j) THEN j + 2 ELSE j

\* \s*-\s* at index j: the index after the match, or 0
DashEnd(s, j) ==
    LET w == j + SpaceRun(s, j) IN
    IF w <= Len(s) /\ s[w] = "-" THEN w + 1 + SpaceRun(s, w + 1) ELSE 0

\* the lookahead of split_manual_note_entries at index i:
\* \d{1,2}:\d{2}(?:\s?[APMapm]{2})?\s*-\s*\d{1,2}:\d{2}
RangeStartsAt(s, i) ==
    Given(ClockEnd(s, i), LAMBDA c1 :
      c1 > 0 /\
    Given(MeridiemEnd(s, c1, TRUE), LAMBDA m1 :
    Given(IF DashEnd(s, m1) > 0 THEN DashEnd(s, m1) ELSE DashEnd(s, c1), LAMBDA d1 :
      d1 > 0 /\ ClockEnd(s, d1) > 0)))

\* ^\d{1,2}:\d{2}(?: ?[APMapm]{2})?\s*-\s*\d{1,2}:\d{2}(?: ?[APMapm]{2})?\s*>?
\* (followed by \s* when trailing): the index after the match, or 0
RangePrefixEnd(s, trailing) ==
    Given(ClockEnd(s, 1), LAMBDA c1 :
      IF c1 = 0 THEN 0 ELSE
    Given(MeridiemEnd(s, c1, FALSE), LAMBDA m1 :
    Given(IF DashEnd(s, m1) > 0 THEN DashEnd(s, m1) ELSE DashEnd(s, c1), LAMBDA d1 :
      IF d1 = 0 THEN 0 ELSE
    Given(ClockEnd(s, d1), LAMBDA c2 :
      IF c2 = 0 THEN 0 ELSE
    Given(MeridiemEnd(s, c2, FALSE), LAMBDA m2 :
    Given(m2 + SpaceRun(s, m2), LAMBDA w :
    Given(IF w <= Len(s) /\ s[w] = ">" THEN w + 1 ELSE w, LAMBDA g :
      IF trailing THEN g + SpaceRun(s, g) ELSE g)))))))

\* re.sub(<range prefix>, '', s)
DropRangePrefix(s, trailing) ==
    Given(RangePrefixEnd(s, trailing), LAMBDA end :
      IF end = 0 THEN s ELSE SubSeq(s, end, Len(s)))

(***************************************************************************)
(* split_manual_note_entries                                               *)
(***************************************************************************)
\* re.split of one line at every index where a time range starts (the
\* lookahead consumes nothing, so the range stays with the following part)
PiecesFrom(e, cuts) ==
    [k \in 1..(Len(cuts) + 1) |->
        SubSeq(e, IF k = 1 THEN 1 ELSE cuts[k - 1],
                  IF k = Len(cuts) + 1 THEN Len(e) ELSE cuts[k] - 1)]
SplitAtRanges(e) == PiecesFrom(e, Ascending({i \in 1..Len(e) : RangeStartsAt(e, i)}))

RECURSIVE SplitEntries(_)
SplitEntries(entries) ==
    IF entries = <<>> THEN <<>>
    ELSE NonEmptyStripped(SplitAtRanges(Head(entries))) \o SplitEntries(Tail(entries))

\* re.split(r'\n+', s): the pieces between runs of newlines (an empty piece
\* of s.split('\n') that is neither the first nor the last lies inside a run)
RECURSIVE MergeNewlineRuns(_, _)
MergeNewlineRuns(parts, first) ==
    IF parts = <<>> THEN <<>>
    ELSE IF Head(parts) = <<>> /\ ~first /\ Len(parts) > 1 THEN MergeNewlineRuns(Tail(parts), FALSE)
    ELSE <<Head(parts)>> \o MergeNewlineRuns(Tail(parts), FALSE)
SplitLines(s) == MergeNewlineRuns(Split(s, "\n"), TRUE)

\* the sub-notes (texts) of a note cell; raises for a numeric cell
\* (note.strip() on a number)
split_manual_note_entries(note) ==
    IF isna(note) THEN Ok(<<>>)
    ELSE IF IsNumber(note) THEN Raised
    ELSE Ok(SplitEntries(SplitLines(Strip(note.s))))

(***************************************************************************)
(* extract_student_initials, extract_task, extract_possible_district       *)
(***************************************************************************)
\* re.findall(r'\b[A-Z]{1,3}\b', s): the maximal runs of word characters
\* that are one to three capital letters
\* the last index of the run of word characters that starts at index i
WordEnd(s, i) ==
    CHOOSE j \in i..Len(s) :
        /\ \A k \in i..j : IsWord(s[k])
        /\ (j = Len(s) \/ ~IsWord(s[j + 1]))

FindInitials(s) ==
    Given(Ascending({i \in 1..Len(s) :
                       /\ IsWord(s[i])
                       /\ (i = 1 \/ ~IsWord(s[i - 1]))
                       /\ Given(WordEnd(s, i), LAMBDA e :
                            e - i + 1 <= 3 /\ \A k \in i..e : IsUpper(s[k]))}), LAMBDA starts :
      [k \in 1..Len(starts) |-> SubSeq(s, starts[k], WordEnd(s, starts[k]))])

extract_student_initials(note) ==
    IF isna(note) THEN None
    ELSE Given(Split(Strip(pystr(note)), ">"), LAMBDA parts0 :
         \* skip the time range if it is the first part
         Given(IF ClockEnd(parts0[1], 1) > 0 THEN Tail(parts0) ELSE parts0, LAMBDA parts :
         Given(IF Len(parts) >= 2 THEN FindInitials(UpperStr(parts[2])) ELSE <<>>, LAMBDA initials :
           IF initials = <<>> THEN None ELSE Str(Join(initials, <<","," ">>)))))

\* extract_task: the third ">" field up to its first "-"; a leading time
\* range is not skipped here
extract_task(note) ==
    IF isna(note) THEN None
    ELSE Given(Split(note.s, ">"), LAMBDA parts :
           IF Len(parts) >= 3 THEN Str(Strip(Split(parts[3], "-")[1])) ELSE None)

extract_possible_district_from_note(note) ==
    IF isna(note) THEN None
    ELSE Given(Strip(DropRangePrefix(Strip(pystr(note)), FALSE)), LAMBDA s :
           IF Contains(s, <<">">>) THEN Str(Strip(Split(s, ">")[1])) ELSE Str(s))


(***************************************************************************)
(* Normalization rules: task taxonomy, site alias table.                   *)
(***************************************************************************)
\* Python: s.title()
Title(s) ==
    [i \in 1..Len(s) |->
        IF IsAlpha(s[i])
        THEN IF i > 1 /\ IsAlpha(s[i - 1]) THEN Lower(s[i]) ELSE Upper(s[i])
        ELSE s[i]]

\* the if/elif chain of standardize_task, in order: triggers and label
task_rules == <<
    [triggers |-> <<<<"r","e","p","o","r","t">>>>,
     label |-> <<"R","e","p","o","r","t"," ","W","r","i","t","i","n","g">>],
    [triggers |-> <<<<"t","e","s","t","i","n","g">>>>,
     label |-> <<"T","e","s","t","i","n","g">>],
    [triggers |-> <<<<"i","n","t","e","r","v","i","e","w">>, <<"o","b","s","e","r","v","a","t","i","o","n">>>>,
     label |-> <<"I","n","t","e","r","v","i","e","w"," ","a","n","d"," ","O","b","s","e","r","v","a","t","i","o","n">>],
    [triggers |-> <<<<"e","v","a","l">>, <<"p","l","a","n","n","i","n","g">>>>,
     label |-> <<"E","v","a","l"," ","P","l","a","n","n","i","n","g">>],
    [triggers |-> <<<<"s","c","o","r","i","n","g">>, <<"u","p","l","o","a","d">>>>,
     label |-> <<"S","c","o","r","i","n","g"," ","a","n","d"," ","U","p","l","o","a","d","i","n","g">>],
    [triggers |-> <<<<"m","e","e","t","i","n","g"," ","p","r","e","p">>>>,
     label |-> <<"M","e","e","t","i","n","g"," ","P","r","e","p">>],
    [triggers |-> <<<<"i","e","p">>>>,
     label |-> <<"I","E","P"," ","M","e","e","t","i","n","g"," ","A","t","t","e","n","d","a","n","c","e">>],
    [triggers |-> <<<<"r","a","t","i","n","g">>>>,
     label |-> <<"R","a","t","i","n","g"," ","S","c","a","l","e","s">>],
    [triggers |-> <<<<"g","u","a","r","d","i","a","n">>, <<"p","a","r","e","n","t">>>>,
     label |-> <<"G","u","a","r","d","i","a","n"," ","C","o","n","t","a","c","t">>],
    [triggers |-> <<<<"t","e","a","c","h","e","r">>>>,
     label |-> <<"T","e","a","c","h","e","r"," ","C","o","n","t","a","c","t">>],
    [triggers |-> <<<<"s","t","a","f","f">>>>,
     label |-> <<"S","c","h","o","o","l"," ","S","t","a","f","f"," ","C","o","n","t","a","c","t">>],
    [triggers |-> <<<<"s","c","h","e","d","u","l","i","n","g">>>>,
     label |-> <<"S","c","h","e","d","u","l","i","n","g">>],
    [triggers |-> <<<<"o","n","b","o","a","r","d","i","n","g">>>>,
     label |-> <<"O","n","b","o","a","r","d","i","n","g">>],
    [triggers |-> <<<<"c","a","s","e","l","o","a","d">>>>,
     label |-> <<"C","a","s","e","l","o","a","d"," ","O","r","g","a","n","i","z","a","t","i","o","n">>],
    [triggers |-> <<<<"p","d">>, <<"d","e","v","e","l","o","p","m","e","n","t">>>>,
     label |-> <<"P","r","o","f","e","s","s","i","o","n","a","l"," ","D","e","v","e","l","o","p","m","e","n","t">>],
    [triggers |-> <<<<"e","m","a","i","l">>, <<"c","o","m","m","u","n","i","c","a","t","i","o","n">>>>,
     label |-> <<"I","n","t","e","r","n","a","l"," ","C","o","m","m","u","n","i","c","a","t","i","o","n">>],
    [triggers |-> <<<<"t","r","o","u","b","l","e","s","h","o","o","t">>, <<"t","e","c","h">>>>,
     label |-> <<"T","r","o","u","b","l","e","s","h","o","o","t","i","n","g">>],
    [triggers |-> <<<<"w","a","i","t","i","n","g">>>>,
     label |-> <<"W","a","i","t","i","n","g">>] >>

\* the index of the last rule one of whose triggers occurs in t, or 0
LastRule(t) ==
    Given({r \in 1..Len(task_rules) :
              \E k \in 1..Len(task_rules[r].triggers) : Contains(t, task_rules[r].triggers[k])},
          LAMBDA hits : IF hits = {} THEN 0 ELSE Greatest(hits))

\* the index of the first rule one of whose triggers occurs in t, or 0
FirstRule(t) ==
    Given({r \in 1..Len(task_rules) :
              \E k \in 1..Len(task_rules[r].triggers) : Contains(t, task_rules[r].triggers[k])},
          LAMBDA hits : IF hits = {} THEN 0 ELSE Least(hits))

standardize_task(task) ==
    IF isna(task) THEN None
    ELSE Given(FirstRule(Strip(LowerStr(task.s))), LAMBDA rule :
           IF rule > 0 THEN Str(task_rules[rule].label) ELSE Str(Title(task.s)))

eval_tasks == {
    <<"E","v","a","l"," ","P","l","a","n","n","i","n","g">>,
    <<"S","c","h","e","d","u","l","i","n","g">>,
    <<"G","u","a","r","d","i","a","n"," ","C","o","n","t","a","c","t">>,
    <<"T","e","a","c","h","e","r"," ","C","o","n","t","a","c","t">>,
    <<"S","c","h","o","o","l"," ","S","t","a","f","f"," ","C","o","n","t","a","c","t">>,
    <<"R","a","t","i","n","g"," ","S","c","a","l","e","s">>,
    <<"E","v","a","l"," ","P","r","e","p">>,
    <<"W","a","i","t","i","n","g">>,
    <<"T","e","s","t","i","n","g">>,
    <<"I","n","t","e","r","v","i","e","w"," ","a","n","d"," ","O","b","s","e","r","v","a","t","i","o","n">>,
    <<"S","c","o","r","i","n","g"," ","a","n","d"," ","U","p","l","o","a","d","i","n","g">>,
    <<"R","e","p","o","r","t"," ","W","r","i","t","i","n","g">>,
    <<"P","o","s","t"," ","E","v","a","l"," ","S","c","h","o","o","l"," ","C","o","n","s","u","l","t","a","t","i","o","n">>,
    <<"M","e","e","t","i","n","g"," ","P","r","e","p">>,
    <<"I","E","P"," ","M","e","e","t","i","n","g"," ","A","t","t","e","n","d","a","n","c","e">> }

admin_tasks == {
    <<"O","n","b","o","a","r","d","i","n","g">>,
    <<"I","n","t","e","r","n","a","l"," ","C","o","m","m","u","n","i","c","a","t","i","o","n">>,
    <<"P","r","o","f","e","s","s","i","o","n","a","l"," ","D","e","v","e","l","o","p","m","e","n","t">>,
    <<"C","a","s","e","l","o","a","d"," ","O","r","g","a","n","i","z","a","t","i","o","n">>,
    <<"T","r","o","u","b","l","e","s","h","o","o","t","i","n","g">> }

\* categorize_task without the test for the administrative tasks
categorize_task_evaluation_only(task) ==
    IF task.t = "str" /\ task.s \in eval_tasks THEN <<"E","v","a","l","u","a","t","i","o","n">>
    ELSE <<"U","n","c","a","t","e","g","o","r","i","z","e","d">>

\* categorize_task: set membership of the standardized task (None is in no set)
categorize_task(task) ==
    IF task.t = "str" /\ task.s \in eval_tasks THEN <<"E","v","a","l","u","a","t","i","o","n">>
    ELSE IF task.t = "str" /\ task.s \in admin_tasks THEN <<"A","d","m","i","n">>
    ELSE <<"U","n","c","a","t","e","g","o","r","i","z","e","d">>

\* district_aliases, in the order of the dict: <<alias, standard>>
district_aliases == <<
    <<<<"L","H","S">>,
      <<"L","a","w","r","e","n","c","e">>>>,
    <<<<"L","a","w","r","e","n","c","e"," ","H","i","g","h">>,
      <<"L","a","w","r","e","n","c","e">>>>,
    <<<<"L","a","w","r","e","n","c","e"," ","H","i","g","h"," ","S","c","h","o","o","l">>,
      <<"L","a","w","r","e","n","c","e">>>>,
    <<<<"K","i","p","p">>,
      <<"K","I","P","P">>>>,
    <<<<"W","a","l","t","h","a","m"," ","H","i","g","h">>,
      <<"W","a","l","t","h","a","m">>>>,
    <<<<"W","a","l","t","h","a","m"," ","E","l","e","m","e","n","t","a","r","y">>,
      <<"W","a","l","t","h","a","m">>>>,
    <<<<"W","S","H","S">>,
      <<"W","e","s","t"," ","S","p","r","i","n","g","f","i","e","l","d">>>>,
    <<<<"W","."," ","S","p","r","i","n","g","f","i","e","l","d">>,
      <<"W","e","s","t"," ","S","p","r","i","n","g","f","i","e","l","d">>>>,
    <<<<"W","e","s","t"," ","S","p","r","i","n","g","f","i","e","l","d"," ","H","i","g","h"," ","S","c","h","o","o","l">>,
      <<"W","e","s","t"," ","S","p","r","i","n","g","f","i","e","l","d">>>>,
    <<<<"w","e","s","t"," ","s","p","r","i","n","g","f","i","e","l","d"," ","h","i","g","h"," ","s","c","h","o","o","l">>,
      <<"W","e","s","t"," ","S","p","r","i","n","g","f","i","e","l","d">>>>,
    <<<<"B","r","i","d","g","e","w","a","t","e","r">>,
      <<"B","r","i","d","g","e","w","a","t","e","r","-","R","a","y","n","h","a","m">>>>,
    <<<<"B","M","S">>,
      <<"B","r","i","d","g","e","w","a","t","e","r","-","R","a","y","n","h","a","m">>>>,
    <<<<"R","a","y","n","a","h","m">>,
      <<"B","r","i","d","g","e","w","a","t","e","r","-","R","a","y","n","h","a","m">>>>,
    <<<<"R","a","y","n","h","a","m">>,
      <<"B","r","i","d","g","e","w","a","t","e","r","-","R","a","y","n","h","a","m">>>>,
    <<<<"B","R","H","S">>,
      <<"B","r","i","d","g","e","w","a","t","e","r","-","R","a","y","n","h","a","m">>>>,
    <<<<"B","R","R","H","S">>,
      <<"B","r","i","d","g","e","w","a","t","e","r","-","R","a","y","n","h","a","m">>>>,
    <<<<"B","r","i","d","g","e","w","a","t","e","r"," ","M","i","d","d","l","e">>,
      <<"B","r","i","d","g","e","w","a","t","e","r","-","R","a","y","n","h","a","m">>>>,
    <<<<"R","a","n","d","o","l","p","h"," ","M","i","d","d","l","e">>,
      <<"R","a","n","d","o","l","p","h">>>>,
    <<<<"R","a","n","d","o","l","p","h"," ","M","i","d","d","l","e"," ","S","c","h","o","o","l">>,
      <<"R","a","n","d","o","l","p","h">>>>,
    <<<<"R","a","n","d","o","l","p","h"," ","H","i","g","h">>,
      <<"R","a","n","d","o","l","p","h">>>>,
    <<<<"D","o","n","o","v","a","n"," ","E","l","e","m","e","n","t","a","r","y">>,
      <<"R","a","n","d","o","l","p","h">>>>,
    <<<<"D","o","n","o","v","a","n">>,
      <<"R","a","n","d","o","l","p","h">>>>,
    <<<<"D","o","n","n","o","v","a","n">>,
      <<"R","a","n","d","o","l","p","h">>>>,
    <<<<"D","o","n","o","v","a","n"," ","S","c","h","o","o","l">>,
      <<"R","a","n","d","o","l","p","h">>>>,
    <<<<"W","a","r","e","h","a","m"," ","E","l","e","m","e","n","t","a","r","y">>,
      <<"W","a","r","e","h","a","m">>>>,
    <<<<"W","E","S">>,
      <<"W","a","r","e","h","a","m">>>>,
    <<<<"A","M","S">>,
      <<"A","s","h","l","a","n","d">>>>,
    <<<<"A","H","S">>,
      <<"A","s","h","l","a","n","d">>>>,
    <<<<"A","s","h","l","a","n","d"," ","M","i","d","d","l","e">>,
      <<"A","s","h","l","a","n","d">>>>,
    <<<<"C","e","n","t","r","a","l"," ","E","l","e","m","e","n","t","a","r","y">>,
      <<"T","e","w","k","s","b","u","r","y">>>>,
    <<<<"C","e","n","t","r","a","l"," ","E","l","e","m","e","n","t","a","r","y"," ","S","c","h","o","o","l">>,
      <<"T","e","w","k","s","b","u","r","y">>>>,
    <<<<"C","e","n","t","e","r"," ","S","c","h","o","o","l">>,
      <<"T","e","w","k","s","b","u","r","y">>>>,
    <<<<"T","W","y","M","S">>,
      <<"T","e","w","k","s","b","u","r","y">>>>,
    <<<<"M","i","l","t","o","n"," ","H","S">>,
      <<"M","i","l","t","o","n">>>>,
    <<<<"M","i","l","t","o","n"," ","H","i","g","h"," ","S","c","h","o","o","l">>,
      <<"M","i","l","t","o","n">>>>,
    <<<<"B","l","u","e"," ","h","i","l","l","s">>,
      <<"B","l","u","e"," ","H","i","l","l","s">>>>,
    <<<<"B","l","u","e"," ","H","i","l","s">>,
      <<"B","l","u","e"," ","H","i","l","l","s">>>>,
    <<<<"B","l","u","e","H","i","l","l","s">>,
      <<"B","l","u","e"," ","H","i","l","l","s">>>>,
    <<<<"A","d","m","i","n">>,
      <<"L","i","l","y","p","a","d">>>>,
    <<<<"L","L">>,
      <<"L","i","l","y","p","a","d">>>>,
    <<<<"L","i","l","y","p","a","d",","," ","G","r","e","e","n","f","i","e","l","d">>,
      <<"G","r","e","e","n","f","i","e","l","d">>>>,
    <<<<"L","i","l","y","p","a","d","/","G","r","e","e","n","f","i","e","l","d">>,
      <<"G","r","e","e","n","f","i","e","l","d">>>>,
    <<<<"L","i","l","y","p","a","d","/","H","o","l","b","r","o","o","k">>,
      <<"H","o","l","b","r","o","o","k">>>>,
    <<<<"s","a","l","e","m">>,
      <<"S","a","l","e","m">>>>,
    <<<<"S","a","l","e","m"," ","S","a","l","t","o","n","s","t","a","l","l">>,
      <<"S","a","l","e","m">>>>,
    <<<<"S","a","l","t","o","n","s","t","a","l","l"," ","E","l","e","m","e","n","t","a","r","y">>,
      <<"S","a","l","e","m">>>>,
    <<<<"B","e","n","t","l","e","y"," ","S","c","h","o","o","l">>,
      <<"S","a","l","e","m">>>>,
    <<<<"B","e","n","t","l","e","y"," ","E","l","e","m","e","n","t","a","r","y">>,
      <<"S","a","l","e","m">>>>,
    <<<<"H","M","H","S">>,
      <<"H","o","l","b","r","o","o","k">>>>,
    <<<<"G","M","S">>,
      <<"G","r","e","e","n","f","i","e","l","d">>>>,
    <<<<"G","r","e","e","n"," ","F","i","e","l","d">>,
      <<"G","r","e","e","n","f","i","e","l","d">>>>,
    <<<<"W",".","S","p","r","i","n","g","f","i","e","l","d">>,
      <<"W","e","s","t"," ","S","p","r","i","n","g","f","i","e","l","d">>>>,
    <<<<"W","e","s","t"," ","S","p","r","i","n","g","f","i","e","l","d"," ","H","S">>,
      <<"W","e","s","t"," ","S","p","r","i","n","g","f","i","e","l","d">>>>,
    <<<<"W","S","H","S","-"," ","J","/","G",".","S",".">>,
      <<"W","e","s","t"," ","S","p","r","i","n","g","f","i","e","l","d">>>>,
    <<<<"C","e","n","t","e","r"," ","E","l","e","m","e","n","t","a","r","y">>,
      <<"T","e","w","k","s","b","u","r","y">>>>,
    <<<<"S","p","r","i","n","g","f","i","e","l","d">>,
      <<"W","e","s","t"," ","S","p","r","i","n","g","f","i","e","l","d">>>> >>

approved_districts == {
    <<"A","c","t","o","n","-","B","o","x","b","o","r","o","u","g","h">>,
    <<"A","s","h","l","a","n","d">>,
    <<"B","l","u","e"," ","H","i","l","l","s">>,
    <<"B","r","i","d","g","e","w","a","t","e","r","-","R","a","y","n","h","a","m">>,
    <<"C","h","e","l","s","e","a">>,
    <<"E","a","s","t","h","a","m","p","t","o","n">>,
    <<"G","r","e","e","n","f","i","e","l","d">>,
    <<"H","o","l","b","r","o","o","k">>,
    <<"K","I","P","P">>,
    <<"L","a","w","r","e","n","c","e">>,
    <<"L","i","l","y","p","a","d">>,
    <<"L","y","n","n","f","i","e","l","d">>,
    <<"M","a","n","s","f","i","e","l","d">>,
    <<"M","i","l","t","o","n">>,
    <<"N","e","w"," ","H","e","i","g","h","t","s">>,
    <<"R","a","n","d","o","l","p","h">>,
    <<"S","a","l","e","m">>,
    <<"T","e","w","k","s","b","u","r","y">>,
    <<"W","a","l","t","h","a","m">>,
    <<"W","a","r","e","h","a","m">>,
    <<"W","e","s","t"," ","S","p","r","i","n","g","f","i","e","l","d">> }

\* the index of the first alias whose lower-cased key occurs in lowered, or 0
FirstAlias(lowered) ==
    Given({a \in 1..Len(district_aliases) : Contains(lowered, LowerStr(district_aliases[a][1]))},
          LAMBDA hits : IF hits = {} THEN 0 ELSE Least(hits))

\* standardize_district that accepts a text no alias matches as it is
standardize_district_unchecked(raw_text) ==
    IF isna(raw_text) THEN None
    ELSE Given(Strip(pystr(raw_text)), LAMBDA raw :
           IF ClockEnd(raw, 1) > 0 THEN None ELSE
         Given(FirstAlias(LowerStr(raw)), LAMBDA alias :
           IF alias > 0 THEN Str(district_aliases[alias][2]) ELSE Str(raw)))

standardize_district(raw_text) ==
    IF isna(raw_text) THEN None
    ELSE Given(Strip(pystr(raw_text)), LAMBDA raw :
           IF ClockEnd(raw, 1) > 0 THEN None ELSE
         Given(FirstAlias(LowerStr(raw)), LAMBDA alias :
           IF alias > 0 THEN Str(district_aliases[alias][2])
           ELSE IF raw \in approved_districts THEN Str(raw)
           ELSE None))


(***************************************************************************)
(* pd.read_csv of a text (default options), as far as the pipelines rely   *)
(* on it: quoting, records and fields, the implicit index of a first data  *)
(* row longer than the header, "Expected n fields" and "EOF inside string" *)
(* errors, missing values, and the numeric inference of a column.          *)
(* Column names of the inputs are distinct and not empty.                  *)
(***************************************************************************)
Quote == "\""

\* The tokenizer's state after the k-th quote character of text (quotes:
\* their positions): "quoted" inside a quoted field, "closing" after the
\* quote that may close it, "field" inside an unquoted field.
RECURSIVE StateAfterQuote(_, _, _)
StateAfterQuote(text, quotes, k) ==
    Given(IF k = 1 THEN "start" ELSE StateAfterQuote(text, quotes, k - 1), LAMBDA prev :
    \* the state before the quote, after the characters since the last quote
    Given(IF prev = "quoted" THEN "quoted"
          ELSE IF k > 1 /\ quotes[k - 1] = quotes[k] - 1 THEN prev
          ELSE IF k = 1 /\ quotes[k] = 1 THEN prev
          ELSE IF text[quotes[k] - 1] \in {",", "\n"} THEN "start"
          ELSE "field", LAMBDA before :
      IF before = "start" THEN "quoted"
      ELSE IF before = "field" THEN "field"
      ELSE IF before = "quoted" THEN "closing"
      ELSE "quoted"))

\* the columns' cells typed as pandas infers them: a column whose present
\* cells are all numbers is numeric (integer when no cell is missing and no
\* cell has a decimal point), any other column keeps its texts
NAStrings == { <<>>, <<"N","A">>, <<"N","/","A">>, <<"n","/","a">>, <<"N","a","N">>, <<"n","a","n">>, <<"N","U","L","L">>, <<"n","u","l","l">>,
               <<"N","o","n","e">>, <<"#","N","/","A">>, <<"<","N","A",">">>, <<"-","N","a","N">>, <<"-","n","a","n">>, <<"#","N","A">> }

\* digits, optionally followed by a point and one to three digits
NumberLike(f) ==
    Given(FirstIdx(f, "."), LAMBDA dot :
    Given2(IF dot = 0 THEN f ELSE SubSeq(f, 1, dot - 1),
           IF dot = 0 THEN <<>> ELSE SubSeq(f, dot + 1, Len(f)), LAMBDA ip, fp :
      /\ Len(ip) \in 1..6 /\ \A i \in 1..Len(ip) : IsDigit(ip[i])
      /\ (dot = 0 \/ (Len(fp) \in 1..3 /\ \A i \in 1..Len(fp) : IsDigit(fp[i])))))

\* the value of a NumberLike text, in thousandths
Thousandths(f) ==
    Given(FirstIdx(f, "."), LAMBDA dot :
    Given2(IF dot = 0 THEN f ELSE SubSeq(f, 1, dot - 1),
           IF dot = 0 THEN <<>> ELSE SubSeq(f, dot + 1, Len(f)), LAMBDA ip, fp :
      1000 * NumVal(ip) + NumVal(fp \o SubSeq(<<"0", "0", "0">>, 1, 3 - Len(fp)))))

TypeColumn(texts) ==
    Given({i \in 1..Len(texts) : texts[i] \notin NAStrings}, LAMBDA present :
    Given2(present # {} /\ \A i \in present : NumberLike(texts[i]),
           Cardinality(present) = Len(texts) /\ \A i \in present : FirstIdx(texts[i], ".") = 0,
           LAMBDA numeric, integral :
      [i \in 1..Len(texts) |->
          IF i \notin present THEN NaN
          ELSE IF ~numeric THEN Str(texts[i])
          ELSE IF integral THEN IntNum(Thousandths(texts[i]))
          ELSE Num(Thousandths(texts[i]))]))

\* a table: columns (names) and rows (sequences of cells, one per column)
EmptyFrame == [columns |-> <<>>, rows |-> <<>>]

\* the elements of seq at the positions idx
At(seq, idx) == [k \in 1..Len(idx) |-> seq[idx[k]]]

\* the elements of seq at the positions keep, in order
Select(seq, keep) == At(seq, Ascending(keep))

\* [lo, hi] of the pieces of lo..hi between the positions sep (ascending)
Bounds(sep, lo, hi) ==
    [k \in 1..(Len(sep) + 1) |->
        [lo |-> IF k = 1 THEN lo ELSE sep[k - 1] + 1,
         hi |-> IF k = Len(sep) + 1 THEN hi ELSE sep[k] - 1]]

CsvError == [raised |-> TRUE, val |-> EmptyFrame]

read_csv(text) ==
    Given(Ascending({i \in 1..Len(text) : text[i] = Quote}), LAMBDA quotes :
    Given(Stored([k \in 1..Len(quotes) |-> StateAfterQuote(text, quotes, k)]), LAMBDA after :
      \* EOF inside string
      IF Len(quotes) > 0 /\ after[Len(quotes)] = "quoted" THEN CsvError ELSE
    \* the number of quotes before position i
    Given(Stored([i \in 1..Len(text) |-> Cardinality({k \in 1..Len(quotes) : quotes[k] < i})]),
          LAMBDA nBefore :
    \* inQuoted: the positions inside a quoted field; dropped: the quotes that
    \* open or close a quoted field (are not data)
    Given2({i \in 1..Len(text) : nBefore[i] > 0 /\ after[nBefore[i]] = "quoted"},
           {i \in 1..Len(text) :
               /\ text[i] = Quote /\ after[nBefore[i] + 1] \in {"quoted", "closing"}
               /\ ~(nBefore[i] > 0 /\ after[nBefore[i]] = "closing" /\ quotes[nBefore[i]] = i - 1)},
           LAMBDA inQuoted, dropped :
    \* the records: [lo, hi] of every line that is not blank
    Given(Bounds(Ascending({i \in 1..Len(text) : text[i] = "\n" /\ i \notin inQuoted}), 1, Len(text)),
          LAMBDA lines :
    Given(Select(lines, {k \in 1..Len(lines) : lines[k].lo <= lines[k].hi}), LAMBDA records :
    \* the texts of the fields of every record
    Given(Stored([k \in 1..Len(records) |->
              Given(Bounds(Ascending({i \in records[k].lo..records[k].hi :
                                         text[i] = "," /\ i \notin inQuoted}),
                           records[k].lo, records[k].hi), LAMBDA fields :
                Stored([f \in 1..Len(fields) |->
                           Select(text, {p \in fields[f].lo..fields[f].hi : p \notin dropped})]))]),
          LAMBDA recs :
      IF Len(recs) = 0 THEN CsvError ELSE
    \* a first data row longer than the header makes its leading fields the index
    Given(IF Len(recs) > 1 /\ Len(recs[2]) > Len(recs[1]) THEN Len(recs[2]) ELSE Len(recs[1]),
          LAMBDA expected :
      \* Expected n fields, saw m
      IF \E r \in 2..Len(recs) : Len(recs[r]) > expected THEN CsvError ELSE
    Given(Stored([c \in 1..Len(recs[1]) |->
              Stored(TypeColumn([r \in 1..(Len(recs) - 1) |->
                         IF expected - Len(recs[1]) + c <= Len(recs[r + 1])
                         THEN recs[r + 1][expected - Len(recs[1]) + c] ELSE <<>>]))]),
          LAMBDA cols :
      [raised |-> FALSE,
       val |-> [columns |-> recs[1],
                rows |-> [r \in 1..(Len(recs) - 1) |-> [c \in 1..Len(recs[1]) |-> cols[c][r]]]]]
    )))))))))

\* the index of the column named name, or 0
ColumnIndex(df, name) ==
    Given({c \in 1..Len(df.columns) : df.columns[c] = name}, LAMBDA hits :
      IF hits = {} THEN 0 ELSE Least(hits))

\* the concatenation of a sequence of sequences
RECURSIVE Concat(_)
Concat(ss) == IF ss = <<>> THEN <<>> ELSE Head(ss) \o Concat(Tail(ss))


(***************************************************************************)
(* process_block (clean_gusto_multi.py): one contractor block to entries.  *)
(***************************************************************************)
NaT == [t |-> "nat", s |-> <<>>, v |-> 0]
DateVal(y, m, d) == [t |-> "date", s |-> <<>>, v |-> 10000 * y + 100 * m + d]

\* pd.to_datetime(x, errors='coerce') for the date texts of the inputs:
\* "M/D/YY" or "M/D/YYYY" is a date, a number is a time stamp of 1970, any
\* other text of the inputs is not a date
to_datetime(x) ==
    IF isna(x) THEN NaT
    ELSE IF IsNumber(x) THEN DateVal(1970, 1, 1)
    ELSE Given(Split(Strip(x.s), "/"), LAMBDA p :
           IF /\ Len(p) = 3
              /\ \A k \in 1..3 : Len(p[k]) >= 1 /\ \A i \in 1..Len(p[k]) : IsDigit(p[k][i])
              /\ Len(p[1]) <= 2 /\ Len(p[2]) <= 2 /\ Len(p[3]) \in {2, 4}
              /\ NumVal(p[1]) \in 1..12 /\ NumVal(p[2]) \in 1..28
           THEN DateVal(IF Len(p[3]) = 2 THEN 2000 + NumVal(p[3]) ELSE NumVal(p[3]),
                        NumVal(p[1]), NumVal(p[2]))
           ELSE NaT)

\* pd.to_numeric(x, errors='coerce'), in thousandths; -1 stands for NaN
to_numeric(x) ==
    IF IsNumber(x) THEN x.v
    ELSE IF x.t # "str" THEN -1
    ELSE Given(Strip(x.s), LAMBDA t : IF NumberLike(t) THEN Thousandths(t) ELSE -1)

\* Python truth value of a cell: "not x" holds for 0, "" and None only
\* (a missing cell, NaN, is true)
Falsy(x) == (IsNumber(x) /\ x.v = 0) \/ (x.t = "str" /\ x.s = <<>>) \/ x.t = "none"

\* an exception that leaves a loop over entries
RaisedInLoop == [raised |-> TRUE, val |-> <<>>]

\* a quotient of hours: n thousandths of an hour divided by d
Frac(n, d) == [n |-> n, d |-> d]

\* line 189 without the division among the students of the sub-note
split_hours_undivided(est_hours, split_notes, student_count) ==
    IF ~Falsy(est_hours) THEN Frac(est_hours.v, split_notes) ELSE Frac(0, 1)

\* line 189: est_hours / len(split_notes) / student_count if est_hours else 0
split_hours(est_hours, split_notes, student_count) ==
    IF ~Falsy(est_hours) THEN Frac(est_hours.v, split_notes * student_count) ELSE Frac(0, 1)

\* lines 186-211: the entries of one sub-note, one per student
SubNoteEntries(date, h, sub_note, est_hours, nsplit, psychologist_name) ==
    Given(NonEmptyStripped(Split(pystr(extract_student_initials(sub_note)), ",")),
          LAMBDA student_list :
    Given2(extract_task(sub_note),
           standardize_district(extract_possible_district_from_note(sub_note)),
           LAMBDA task, district :
    Given(standardize_task(task), LAMBDA std_task :
    Given([Date |-> date,
           Hours |-> h,
           Note |-> sub_note,
           Estimated_Hours |-> split_hours(est_hours, nsplit,
                                           IF student_list # <<>> THEN Len(student_list) ELSE 1),
           Student_Initials |-> None,
           District |-> district,
           Task |-> task,
           Standardized_Task |-> std_task,
           Task_Category |-> categorize_task(std_task),
           Psychologist |-> psychologist_name], LAMBDA entry :
      \* for student in student_list or [None]
      IF student_list = <<>> THEN <<entry>>
      ELSE [i \in 1..Len(student_list) |->
               [entry EXCEPT !.Student_Initials = Str(student_list[i])]]))))

\* lines 175-211: the entries of one (Hours, Notes) pair of a row; raises
\* when estimate_hours or split_manual_note_entries raises
PairEntries(date, h, n, psychologist_name) ==
    IF Falsy(h) /\ Falsy(n) THEN Ok(<<>>)
    ELSE Given2(estimate_hours(h), split_manual_note_entries(n), LAMBDA est, split :
           IF est.raised \/ split.raised THEN RaisedInLoop ELSE
         \* if not split_notes: split_notes = [n]
         Given(IF split.val = <<>> THEN <<n>>
               ELSE [k \in 1..Len(split.val) |-> Str(split.val[k])], LAMBDA split_notes :
           Ok(Concat([k \in 1..Len(split_notes) |->
                         SubNoteEntries(date, h, split_notes[k], est.val,
                                        Len(split_notes), psychologist_name)]))))

\* the columns whose name starts with prefix
ColumnSet(df, prefix) == {c \in 1..Len(df.columns) : StartsWith(df.columns[c], prefix)}

\* the columns whose name starts with prefix, in column order
ColumnsWith(df, prefix) == Ascending(ColumnSet(df, prefix))

\* lines 163-211: the entries of one row (none when its date is missing)
RowEntries(df, row, psychologist_name) ==
    \* row.get("Date", row.get('"Date"'))
    Given(ColumnIndex(df, <<"D","a","t","e">>), LAMBDA plain :
    Given(IF plain > 0 THEN plain ELSE ColumnIndex(df, <<"\"","D","a","t","e","\"">>), LAMBDA dc :
    Given(to_datetime(IF dc > 0 THEN row[dc] ELSE None), LAMBDA date :
      IF isna(date) \/ date.t = "nat" THEN Ok(<<>>) ELSE
    Given2(ColumnsWith(df, <<"H","o","u","r","s">>), ColumnsWith(df, <<"N","o","t","e","s">>), LAMBDA hours_cols, notes_cols :
    \* zip(hours_cols, notes_cols)
    Given(Stored([k \in 1..(IF Len(hours_cols) < Len(notes_cols)
                            THEN Len(hours_cols) ELSE Len(notes_cols)) |->
                    PairEntries(date, row[hours_cols[k]], row[notes_cols[k]], psychologist_name)]),
          LAMBDA pairs :
      IF \E k \in 1..Len(pairs) : pairs[k].raised THEN RaisedInLoop
      ELSE Ok(Concat([k \in 1..Len(pairs) |-> pairs[k].val])))))))

\* lines 149-159: whether read_csv raised, and the table to process (empty
\* when it raised)
ReadBlock(block_lines) ==
    Given(read_csv(Concat(block_lines)), LAMBDA csv :
      IF csv.raised THEN [read_failed |-> TRUE, df |-> EmptyFrame] ELSE
    Given(ColumnIndex(csv.val, <<"T","o","t","a","l"," ","h","o","u","r","s">>), LAMBDA th :
      [read_failed |-> FALSE,
       df |-> IF th = 0 THEN csv.val
              ELSE [csv.val EXCEPT !.rows =
                       Select(csv.val.rows,
                              {r \in 1..Len(csv.val.rows) : to_numeric(csv.val.rows[r][th]) > 0})]]))

\* lines 163-211: the outcome of every row of the table
FrameRows(df, psychologist_name) ==
    Stored([r \in 1..Len(df.rows) |-> RowEntries(df, df.rows[r], psychologist_name)])

\* the row loop as written: an exception of a row leaves the function (and
\* takes the entries of the block's earlier rows with it)
RowLoop(rows) ==
    IF \E r \in 1..Len(rows) : rows[r].raised THEN RaisedInLoop
    ELSE Ok(Concat([r \in 1..Len(rows) |-> rows[r].val]))

\* process_block: the entries of the block, or the exception of a row
process_block(block_lines, psychologist_name) ==
    RowLoop(FrameRows(ReadBlock(block_lines).df, psychologist_name))


(***************************************************************************)
(* quickbooks_parser.py: the description of a billing line                 *)
(***************************************************************************)
primary_evaluations ==
    << <<"F","u","l","l"," ","E","v","a","l","u","a","t","i","o","n">>, <<"C","o","g","n","i","t","i","v","e"," ","O","n","l","y">>, <<"E","d","u","c","a","t","i","o","n","a","l"," ","O","n","l","y">>, <<"B","i","l","i","n","g","u","a","l"," ","E","v","a","l","u","a","t","i","o","n">>,
       <<"M","u","l","t","i","l","i","n","g","u","a","l"," ","E","v","a","l","u","a","t","i","o","n">>, <<"H","a","i","t","i","a","n"," ","C","r","e","o","l","e"," ","E","v","a","l","u","a","t","i","o","n">>, <<"S","p","a","n","i","s","h"," ","E","v","a","l","u","a","t","i","o","n">> >>

\* x is an element of the sequence seq
InSeq(x, seq) == \E i \in 1..Len(seq) : seq[i] = x

\* the base evaluation with the tests for the bilingual and for the
\* psychoeducational evaluations made one after the other (if, not elif)
BaseEvaluationEach(d) ==
    (IF Contains(d, <<"b","i","l","i","n","g","u","a","l">>)
     THEN IF Contains(d, <<"h","a","i","t","i","a","n"," ","c","r","e","o","l","e">>) THEN << <<"H","a","i","t","i","a","n"," ","C","r","e","o","l","e"," ","E","v","a","l","u","a","t","i","o","n">> >>
          ELSE IF Contains(d, <<"s","p","a","n","i","s","h">>) THEN << <<"S","p","a","n","i","s","h"," ","E","v","a","l","u","a","t","i","o","n">> >>
          ELSE << <<"B","i","l","i","n","g","u","a","l"," ","E","v","a","l","u","a","t","i","o","n">> >>
     ELSE <<>>)
    \o (IF Contains(d, <<"p","s","y","c","h","o","e","d","u","c","a","t","i","o","n","a","l"," ","e","v","a","l","u","a","t","i","o","n">>) \/ Contains(d, <<"p","s","y","c","h","o","e","d"," ","e","v","a","l">>)
        THEN IF Contains(d, <<"c","o","g","n","i","t","i","v","e"," ","o","n","l","y">>) THEN << <<"C","o","g","n","i","t","i","v","e"," ","O","n","l","y">> >>
             ELSE << <<"F","u","l","l"," ","E","v","a","l","u","a","t","i","o","n">> >>
        ELSE <<>>)

\* lines 14-31: the base evaluation type, as a list of at most one component
BaseEvaluation(d) ==
    IF Contains(d, <<"b","i","l","i","n","g","u","a","l">>)
    THEN IF Contains(d, <<"s","p","a","n","i","s","h"," ","&"," ","h","a","i","t","i","a","n"," ","c","r","e","o","l","e">>) \/ Contains(d, <<"s","p","a","n","i","s","h"," ","a","n","d"," ","h","a","i","t","i","a","n"," ","c","r","e","o","l","e">>)
         THEN << <<"M","u","l","t","i","l","i","n","g","u","a","l"," ","E","v","a","l","u","a","t","i","o","n">> >>
         ELSE IF Contains(d, <<"h","a","i","t","i","a","n"," ","c","r","e","o","l","e">>) THEN << <<"H","a","i","t","i","a","n"," ","C","r","e","o","l","e"," ","E","v","a","l","u","a","t","i","o","n">> >>
         ELSE IF Contains(d, <<"s","p","a","n","i","s","h">>) THEN << <<"S","p","a","n","i","s","h"," ","E","v","a","l","u","a","t","i","o","n">> >>
         ELSE << <<"B","i","l","i","n","g","u","a","l"," ","E","v","a","l","u","a","t","i","o","n">> >>
    ELSE IF \/ Contains(d, <<"p","s","y","c","h","o","e","d","u","c","a","t","i","o","n","a","l"," ","e","v","a","l","u","a","t","i","o","n">>) \/ Contains(d, <<"p","s","y","c","h","o","e","d"," ","e","v","a","l">>)
            \/ Contains(d, <<"p","s","y","c","h","o","e","d"," ","e","v","a","l","u","a","t","i","o","n">>) \/ Contains(d, <<"p","s","y","c","h","o","l","o","g","i","c","a","l"," ","e","v","a","l">>)
            \/ Contains(d, <<"p","s","y","c","h","o","l","o","g","i","c","a","l"," ","e","v","a","l","u","a","t","i","o","n">>)
    THEN IF Contains(d, <<"c","o","g","n","i","t","i","v","e"," ","o","n","l","y">>) THEN << <<"C","o","g","n","i","t","i","v","e"," ","O","n","l","y">> >>
         ELSE IF Contains(d, <<"e","d","u","c","a","t","i","o","n","a","l"," ","o","n","l","y">>) THEN << <<"E","d","u","c","a","t","i","o","n","a","l"," ","O","n","l","y">> >>
         ELSE << <<"F","u","l","l"," ","E","v","a","l","u","a","t","i","o","n">> >>
    ELSE IF /\ Contains(d, <<"e","v","a","l","u","a","t","i","o","n">>)
            /\ ~(\/ Contains(d, <<"a","c","a","d","e","m","i","c">>) \/ Contains(d, <<"i","e","p">>)
                 \/ Contains(d, <<"s","e","t","-","u","p">>) \/ Contains(d, <<"s","e","t","u","p">>))
    THEN << <<"F","u","l","l"," ","E","v","a","l","u","a","t","i","o","n">> >>
    ELSE <<>>

\* lines 33-45 with the IEP Meeting add-on kept beside a primary evaluation
AddOnsKept(d, base) ==
    (IF /\ Contains(d, <<"a","c","a","d","e","m","i","c">>) /\ (Contains(d, <<"a","s","s","e","s","s","m","e","n","t">>) \/ Contains(d, <<"t","e","s","t","i","n","g">>))
        /\ ~\E i \in 1..Len(base) : InSeq(base[i], primary_evaluations)
     THEN << <<"A","c","a","d","e","m","i","c"," ","T","e","s","t","i","n","g"," ","(","A","d","d","-","o","n",")">> >> ELSE <<>>)
    \o (IF /\ Contains(d, <<"i","e","p">>) /\ (Contains(d, <<"m","e","e","t","i","n","g">>) \/ Contains(d, <<"p","r","e","s","e","n","t","a","t","i","o","n">>))
        THEN << <<"I","E","P"," ","M","e","e","t","i","n","g"," ","(","A","d","d","-","o","n",")">> >> ELSE <<>>)
    \o (IF Contains(d, <<"r","a","t","i","n","g"," ","s","c","a","l","e","s">>) THEN << <<"R","a","t","i","n","g"," ","S","c","a","l","e","s">> >> ELSE <<>>)
    \o (IF Contains(d, <<"s","e","t","-","u","p">>) \/ Contains(d, <<"s","e","t","u","p">>) THEN << <<"R","e","m","o","t","e"," ","S","e","t","u","p">> >> ELSE <<>>)

\* lines 33-45: the additional components, after the components base
AddOns(d, base) ==
    (IF /\ Contains(d, <<"a","c","a","d","e","m","i","c">>) /\ (Contains(d, <<"a","s","s","e","s","s","m","e","n","t">>) \/ Contains(d, <<"t","e","s","t","i","n","g">>))
        /\ ~\E i \in 1..Len(base) : InSeq(base[i], primary_evaluations)
     THEN << <<"A","c","a","d","e","m","i","c"," ","T","e","s","t","i","n","g"," ","(","A","d","d","-","o","n",")">> >> ELSE <<>>)
    \o (IF /\ Contains(d, <<"i","e","p">>) /\ (Contains(d, <<"m","e","e","t","i","n","g">>) \/ Contains(d, <<"p","r","e","s","e","n","t","a","t","i","o","n">>))
        /\ ~\E i \in 1..Len(base) : InSeq(base[i], primary_evaluations)
        THEN << <<"I","E","P"," ","M","e","e","t","i","n","g"," ","(","A","d","d","-","o","n",")">> >> ELSE <<>>)
    \o (IF Contains(d, <<"r","a","t","i","n","g"," ","s","c","a","l","e","s">>) THEN << <<"R","a","t","i","n","g"," ","S","c","a","l","e","s">> >> ELSE <<>>)
    \o (IF Contains(d, <<"s","e","t","-","u","p">>) \/ Contains(d, <<"s","e","t","u","p">>) THEN << <<"R","e","m","o","t","e"," ","S","e","t","u","p">> >> ELSE <<>>)

\* extract_service_components: the components of a description (a cell)
extract_service_components(description) ==
    IF isna(description) THEN <<>>
    ELSE Given(LowerStr(pystr(description)), LAMBDA d :
         Given(BaseEvaluation(d), LAMBDA base : base \o AddOns(d, base)))

\* the end (exclusive) of the run of digits of s from i
DigitsEnd(s, i) ==
    IF \E j \in i..Len(s) : ~IsDigit(s[j])
    THEN CHOOSE j \in i..Len(s) : ~IsDigit(s[j]) /\ \A k \in i..(j - 1) : IsDigit(s[k])
    ELSE Len(s) + 1

\* #?\s*(\d+) at index a: the index of the first digit, or 0
DigitsAt(s, a) ==
    Given2(AfterSpaces(s, IF a <= Len(s) /\ s[a] = "#" THEN a + 1 ELSE a), AfterSpaces(s, a),
           LAMBDA withHash, noHash :
      IF withHash <= Len(s) /\ IsDigit(s[withHash]) THEN withHash
      ELSE IF noHash <= Len(s) /\ IsDigit(s[noHash]) THEN noHash
      ELSE 0)

\* the digits of s from index i
DigitsFrom(s, i) == SubSeq(s, i, DigitsEnd(s, i) - 1)

\* re.search(prefix + r'#?\s*(\d+)', s): the digits of the leftmost match
\* (prefix is a literal text), or <<>> when there is none
NumberAfter(s, prefix) ==
    Given({i \in 1..Len(s) : MatchAt(s, prefix, i) /\ DigitsAt(s, i + Len(prefix)) > 0},
          LAMBDA starts :
      IF starts = {} THEN <<>>
      ELSE DigitsFrom(s, DigitsAt(s, Least(starts) + Len(prefix))))

\* lines 56-69: the evaluation number, by the first pattern that matches
EvaluationNumber(s) ==
    Given2(NumberAfter(s, <<"E","v","a","l","u","a","t","i","o","n"," ">>), NumberAfter(s, <<"E","v","a","l"," ">>), LAMBDA long, short :
      IF long # <<>> THEN Str(long)
      ELSE IF short # <<>> THEN Str(short) ELSE
    \* #\s*(\d+), then (\d{2,})
    Given2({i \in 1..Len(s) : s[i] = "#" /\ AfterSpaces(s, i + 1) <= Len(s)
                              /\ IsDigit(s[AfterSpaces(s, i + 1)])},
           {i \in 1..(Len(s) - 1) : IsDigit(s[i]) /\ IsDigit(s[i + 1])}, LAMBDA hashes, runs :
      IF hashes # {} THEN Str(DigitsFrom(s, AfterSpaces(s, Least(hashes) + 1)))
      ELSE IF runs # {} THEN Str(DigitsFrom(s, Least(runs)))
      ELSE None))

\* lines 71-73: re.search(r'\(([A-Z]{2,3})\)', s)
ParenInitials(s) ==
    LET at(i, n) == /\ i + n + 1 <= Len(s) /\ s[i] = "(" /\ s[i + n + 1] = ")"
                    /\ \A k \in (i + 1)..(i + n) : IsUpper(s[k])
    IN  Given({i \in 1..Len(s) : at(i, 2) \/ at(i, 3)}, LAMBDA starts :
          IF starts = {} THEN None ELSE
        Given(Least(starts), LAMBDA i0 :
          Str(SubSeq(s, i0 + 1, IF at(i0, 2) THEN i0 + 2 ELSE i0 + 3))))

\* lines 79-97: the primary service type
service_type_of(components) ==
    IF InSeq(<<"M","u","l","t","i","l","i","n","g","u","a","l"," ","E","v","a","l","u","a","t","i","o","n">>, components) THEN Str(<<"M","u","l","t","i","l","i","n","g","u","a","l"," ","E","v","a","l","u","a","t","i","o","n">>)
    ELSE IF \E i \in 1..Len(components) :
               Contains(components[i], <<"B","i","l","i","n","g","u","a","l">>) /\ Contains(components[i], <<"E","v","a","l","u","a","t","i","o","n">>)
         THEN Str(<<"B","i","l","i","n","g","u","a","l"," ","E","v","a","l","u","a","t","i","o","n">>)
    ELSE IF InSeq(<<"C","o","g","n","i","t","i","v","e"," ","O","n","l","y">>, components) THEN Str(<<"C","o","g","n","i","t","i","v","e"," ","O","n","l","y">>)
    ELSE IF InSeq(<<"E","d","u","c","a","t","i","o","n","a","l"," ","O","n","l","y">>, components) THEN Str(<<"E","d","u","c","a","t","i","o","n","a","l"," ","O","n","l","y">>)
    ELSE IF InSeq(<<"F","u","l","l"," ","E","v","a","l","u","a","t","i","o","n">>, components) THEN Str(<<"F","u","l","l"," ","E","v","a","l","u","a","t","i","o","n">>)
    ELSE IF InSeq(<<"A","c","a","d","e","m","i","c"," ","T","e","s","t","i","n","g"," ","(","A","d","d","-","o","n",")">>, components) THEN Str(<<"A","c","a","d","e","m","i","c"," ","T","e","s","t","i","n","g"," ","(","A","d","d","-","o","n",")">>)
    ELSE IF InSeq(<<"I","E","P"," ","M","e","e","t","i","n","g"," ","(","A","d","d","-","o","n",")">>, components) THEN Str(<<"I","E","P"," ","M","e","e","t","i","n","g"," ","(","A","d","d","-","o","n",")">>)
    ELSE IF InSeq(<<"R","e","m","o","t","e"," ","S","e","t","u","p">>, components) THEN Str(<<"S","e","t","u","p"," ","F","e","e">>)
    ELSE None

\* extract_student_info: initials, evaluation number, service type, components
extract_student_info(description) ==
    IF isna(description)
    THEN [initials |-> None, eval_num |-> None, service_type |-> None, components |-> <<>>]
    ELSE Given(Strip(pystr(description)), LAMBDA s :
         Given(extract_service_components(Str(s)), LAMBDA components :
           [initials |-> ParenInitials(s),
            eval_num |-> EvaluationNumber(s),
            service_type |-> service_type_of(components),
            components |-> components]))

\* the characters of the component names, by code point
CodeOrder == << " ", "(", ")", "+", "-" >> \o UpperChars \o LowerChars
CodeOf(c) == CHOOSE i \in 1..Len(CodeOrder) : CodeOrder[i] = c

\* a < b as Python compares strings
StrLess(a, b) ==
    \E i \in 1..Len(b) :
        /\ \A k \in 1..(i - 1) : k <= Len(a) /\ a[k] = b[k]
        /\ (i > Len(a) \/ (a[i] # b[i] /\ CodeOf(a[i]) < CodeOf(b[i])))
        /\ i - 1 <= Len(a)

\* the components joined in the order of their detection
ServiceBundleUnsorted(components) == Join(components, <<" ","+"," ">>)

\* lines 226-229: ' + '.join(sorted(set(components)))
ServiceBundle(components) ==
    Given({components[i] : i \in 1..Len(components)}, LAMBDA names :
      Join([k \in 1..Cardinality(names) |->
               CHOOSE x \in names : Cardinality({y \in names : StrLess(y, x)}) = k - 1],
           <<" ","+"," ">>))

\* float(text) for the amounts of the inputs: an optional sign, digits, and
\* an optional point with up to three digits; -1 when float() raises
\* (the result is [ok, v] with v in thousandths)
ParseFloat(text) ==
    Given(Strip(text), LAMBDA t :
    Given(IF Len(t) > 0 /\ t[1] \in {"-", "+"} THEN Tail(t) ELSE t, LAMBDA body :
      IF ~NumberLike(body) THEN [ok |-> FALSE, v |-> 0]
      ELSE IF t[1] = "-" THEN [ok |-> TRUE, v |-> 0 - Thousandths(body)]
      ELSE [ok |-> TRUE, v |-> Thousandths(body)]))

\* clean_amount: the amount of a cell, in thousandths
clean_amount(amount_str) ==
    IF isna(amount_str) THEN 0
    ELSE IF IsNumber(amount_str) THEN amount_str.v
    ELSE Given(ParseFloat(Select(amount_str.s,
                                 {i \in 1..Len(amount_str.s) : amount_str.s[i] \notin {"$", ","}})),
               LAMBDA amount : IF amount.ok THEN amount.v ELSE 0)


(***************************************************************************)
(* process_quickbooks_file (quickbooks_parser.py, lines 115-265)           *)
(***************************************************************************)
required_columns ==
    << <<"T","r","a","n","s","a","c","t","i","o","n"," ","d","a","t","e">>, <<"T","r","a","n","s","a","c","t","i","o","n"," ","t","y","p","e">>, <<"N","u","m">>, <<"C","u","s","t","o","m","e","r">>,
       <<"P","r","o","d","u","c","t","/","S","e","r","v","i","c","e"," ","f","u","l","l"," ","n","a","m","e">>, <<"L","i","n","e"," ","d","e","s","c","r","i","p","t","i","o","n">>, <<"A","m","o","u","n","t">>,
       <<"Q","u","a","n","t","i","t","y">>, <<"S","a","l","e","s"," ","p","r","i","c","e">> >>

\* lines 203-205: the columns of the amounts
amount_columns == << <<"A","m","o","u","n","t">>, <<"Q","u","a","n","t","i","t","y">>, <<"S","a","l","e","s"," ","p","r","i","c","e">> >>

\* what the call raised (error names the check that failed) or returned
Failed(error) == [raised |-> TRUE, error |-> error, table |-> <<>>]
\* line 149: the error whose message lists the column names
MissingColumnsError(names) ==
    [raised |-> TRUE, error |-> "missing columns", table |-> <<>>, columns |-> names]
Returned(table) == [raised |-> FALSE, error |-> "", table |-> table]

\* lines 118-127: the position of the first line that holds the column
\* names, or 0
HeaderStart(content) ==
    Given({i \in 1..Len(content) : MatchAt(content, <<"T","r","a","n","s","a","c","t","i","o","n"," ","d","a","t","e",",","T","r","a","n","s","a","c","t","i","o","n"," ","t","y","p","e">>, i)},
          LAMBDA hits :
      IF hits = {} THEN 0 ELSE
    Given({j \in 1..(Least(hits) - 1) : content[j] = "\n"}, LAMBDA breaks :
      IF breaks = {} THEN 1 ELSE 1 + Greatest(breaks)))

\* line 143: the column names stripped
StripColumns(frame) ==
    [frame EXCEPT !.columns = [c \in 1..Len(frame.columns) |-> Strip(frame.columns[c])]]

\* line 144: df.dropna(axis=1, how='all'), the columns with a value in some row
DropEmptyColumns(frame) ==
    Given(Ascending({c \in 1..Len(frame.columns) :
                        \E r \in 1..Len(frame.rows) : ~isna(frame.rows[r][c])}), LAMBDA keep :
      [columns |-> At(frame.columns, keep),
       rows |-> [r \in 1..Len(frame.rows) |-> At(frame.rows[r], keep)]])

\* lines 147: the required columns the table lacks
MissingColumns(frame) ==
    Select(required_columns,
           {i \in 1..Len(required_columns) : ColumnIndex(frame, required_columns[i]) = 0})

\* row[name], and row.get(name) when the column may be absent
Cell(frame, row, name) ==
    Given(ColumnIndex(frame, name), LAMBDA c : IF c = 0 THEN None ELSE row[c])

\* pd.to_datetime(x) (errors='raise') of a cell that is present
to_datetime_strict(x) ==
    Given(to_datetime(x), LAMBDA date :
      IF x.t = "str" /\ date = NaT THEN [raised |-> TRUE, val |-> NaT] ELSE Ok(date))

\* line 177: the row is an empty row or a total row
SkippedRow(frame, row) ==
    \/ isna(Cell(frame, row, <<"T","r","a","n","s","a","c","t","i","o","n"," ","d","a","t","e">>))
    \/ StartsWith(LowerStr(pystr(Cell(frame, row, <<"T","r","a","n","s","a","c","t","i","o","n"," ","t","y","p","e">>))), <<"t","o","t","a","l">>)

\* the customer of the row alone, without the last known one
CustomerOfRow(frame, row, last) == Cell(frame, row, <<"C","u","s","t","o","m","e","r">>)

\* line 185-187: the customer of the row, the last known one when it has none
CustomerOf(frame, row, last) ==
    Given(Cell(frame, row, <<"C","u","s","t","o","m","e","r">>), LAMBDA customer :
      IF ~isna(customer) THEN customer ELSE last)

\* lines 180-207: the record of a row; raises when a date does not parse
RowRecord(frame, row, last) ==
    Given2(Cell(frame, row, <<"L","i","n","e"," ","d","e","s","c","r","i","p","t","i","o","n">>), Cell(frame, row, <<"S","e","r","v","i","c","e"," ","d","a","t","e">>),
           LAMBDA description, service :
    Given(to_datetime_strict(Cell(frame, row, <<"T","r","a","n","s","a","c","t","i","o","n"," ","d","a","t","e">>)), LAMBDA invoiced :
    Given(IF ~isna(service) THEN to_datetime_strict(service) ELSE invoiced, LAMBDA date :
      IF date.raised \/ invoiced.raised THEN [raised |-> TRUE, val |-> None] ELSE
    Given2(extract_student_info(description),
           [k \in 1..3 |-> clean_amount(Cell(frame, row, amount_columns[k]))],
           LAMBDA info, amounts :
      Ok([Date |-> date.val,
          Invoice_Date |-> invoiced.val,
          Customer |-> CustomerOf(frame, row, last),
          Invoice |-> Cell(frame, row, <<"N","u","m">>),
          Service |-> Cell(frame, row, <<"P","r","o","d","u","c","t","/","S","e","r","v","i","c","e"," ","f","u","l","l"," ","n","a","m","e">>),
          Description |-> description,
          Student_Initials |-> info.initials,
          Evaluation_Number |-> info.eval_num,
          Service_Type |-> info.service_type,
          Service_Components |-> info.components,
          Amount |-> amounts[1],
          Quantity |-> amounts[2],
          Unit_Price |-> amounts[3]])))))

\* df['Amount'].sum(), in thousandths
RECURSIVE TotalAmount(_)
TotalAmount(recs) ==
    IF recs = <<>> THEN 0 ELSE Head(recs).Amount + TotalAmount(Tail(recs))

\* lines 117-153: the table of the file, or the error of its validation
ReadTable(content) ==
    LET start == HeaderStart(content)
        Validated(frame) ==
            Given(MissingColumns(frame), LAMBDA missing_columns :
              IF missing_columns # <<>>
              THEN [error |-> "missing columns", frame |-> frame, missing |-> missing_columns]
              ELSE IF frame.rows = <<>> THEN [error |-> "no data", frame |-> frame, missing |-> <<>>]
              ELSE [error |-> "", frame |-> frame, missing |-> <<>>])
        Read(csv) ==
            IF csv.raised THEN [error |-> "read_csv", frame |-> EmptyFrame, missing |-> <<>>]
            ELSE Given(DropEmptyColumns(StripColumns(csv.val)), Validated)
    IN  IF start = 0 THEN [error |-> "no column headers", frame |-> EmptyFrame, missing |-> <<>>]
        ELSE Given(read_csv(SubSeq(content, start, Len(content))), Read)

\* lines 217-229: the records with the Service Bundle of each (the columns
\* Month, Week, Invoice Month and District are not modelled)
WithBundles(recs) ==
    [i \in 1..Len(recs) |->
        [record |-> recs[i], Service_Bundle |-> ServiceBundle(recs[i].Service_Components)]]

\* lines 213-262: no record is an error, and so is a total amount of zero or
\* less
Finish(recs) ==
    IF recs = <<>> THEN Failed("no valid records")
    ELSE IF TotalAmount(recs) <= 0 THEN Failed("total amount")
    ELSE Returned(WithBundles(recs))


(***************************************************************************)
(* process_gusto_file (clean_gusto_multi.py, lines 377-512) and            *)
(* parse_note_format (lines 550-568)                                       *)
(***************************************************************************)
NoMatch == [ok |-> FALSE, start |-> 0, lo |-> 0, hi |-> 0, end |-> 0]

\* line 390: the match of \n\s*"Hours for ([^"]+) \(Contractor\)"\s*\n that
\* starts at the newline i of text: where it starts and ends, and the name
\* (text[lo..hi]); the blanks after the header are taken up to the last
\* newline among them
HeaderAt(text, i) ==
    Given(AfterSpaces(text, i + 1), LAMBDA q :
      IF ~MatchAt(text, <<"\"","H","o","u","r","s"," ","f","o","r"," ">>, q) THEN NoMatch ELSE
    Given({c \in (q + 11)..Len(text) : text[c] = Quote}, LAMBDA closing :
      IF closing = {} THEN NoMatch ELSE
    Given(Least(closing), LAMBDA c :
      IF ~(MatchAt(text, <<" ","(","C","o","n","t","r","a","c","t","o","r",")">>, c - 13) /\ c - 13 > q + 11) THEN NoMatch ELSE
    Given({e \in (c + 1)..(c + SpaceRun(text, c + 1)) : text[e] = "\n"}, LAMBDA ends :
      IF ends = {} THEN NoMatch
      ELSE [ok |-> TRUE, start |-> i, lo |-> q + 11, hi |-> c - 14, end |-> Greatest(ends)]))))

\* re.split with one group: the text before each match and the name, from
\* position pos on; a match starts where the one before it has ended
RECURSIVE SplitFrom(_, _, _)
SplitFrom(text, matches, pos) ==
    Given({m \in matches : m.start >= pos}, LAMBDA rest :
      IF rest = {} THEN <<SubSeq(text, pos, Len(text))>> ELSE
    Given(CHOOSE m \in rest : \A o \in rest : m.start <= o.start, LAMBDA m :
      <<SubSeq(text, pos, m.start - 1), SubSeq(text, m.lo, m.hi)>>
          \o SplitFrom(text, matches, m.end + 1)))

\* line 390: sections = re.split(..., file_content)
split_sections(file_content) ==
    SplitFrom(file_content,
              {HeaderAt(file_content, i) :
                  i \in {i \in 1..Len(file_content) : file_content[i] = "\n"}} \ {NoMatch},
              1)

\* Python: s.strip(c) for a character c
RECURSIVE StripChar(_, _)
StripChar(s, c) ==
    IF s # <<>> /\ Head(s) = c THEN StripChar(Tail(s), c)
    ELSE IF s # <<>> /\ s[Len(s)] = c THEN StripChar(SubSeq(s, 1, Len(s) - 1), c)
    ELSE s

\* pd.to_datetime(s, format='%m/%d/%y') (width 2) or '%m/%d/%Y' (width 4) for
\* the date texts of the inputs; NaT stands for the ValueError
DateWithFormat(s, width) ==
    Given(Split(s, "/"), LAMBDA p :
      IF /\ Len(p) = 3
         /\ \A k \in 1..3 : Len(p[k]) >= 1 /\ \A i \in 1..Len(p[k]) : IsDigit(p[k][i])
         /\ Len(p[1]) <= 2 /\ Len(p[2]) <= 2 /\ Len(p[3]) = width
         /\ NumVal(p[1]) \in 1..12 /\ NumVal(p[2]) \in 1..28
      THEN DateVal(IF width = 4 THEN NumVal(p[3])
                   ELSE IF NumVal(p[3]) < 69 THEN 2000 + NumVal(p[3]) ELSE 1900 + NumVal(p[3]),
                   NumVal(p[1]), NumVal(p[2]))
      ELSE NaT)

\* the elements of a column of cells under one format (.str.strip('"'))
ColumnWithFormat(cells, width) ==
    [r \in 1..Len(cells) |->
        IF isna(cells[r]) THEN NaT ELSE DateWithFormat(StripChar(cells[r].s, Quote), width)]

\* lines 421-431: df['Date'].  The column date_col is parsed under the first
\* of the two formats that fits all its cells (tried is the column under
\* each); .str raises for a column without text, which the loop over the
\* formats swallows.  When no format fits, a table that has a column Date
\* keeps it as read; otherwise date_col is parsed cell by cell, and .str
\* raises for a column without text.
DateColumn(cells, plain) ==
    Given(\E r \in 1..Len(cells) : cells[r].t = "str", LAMBDA text :
    Given(IF text THEN <<ColumnWithFormat(cells, 2), ColumnWithFormat(cells, 4)>> ELSE <<>>,
          LAMBDA tried :
    Given({f \in 1..Len(tried) : \A r \in 1..Len(cells) : isna(cells[r]) \/ tried[f][r] # NaT},
          LAMBDA fits :
      IF fits # {} THEN Ok(tried[Least(fits)])
      ELSE IF plain # <<>> THEN Ok(plain)
      ELSE IF ~text THEN Raised
      ELSE Ok([r \in 1..Len(cells) |->
                  IF isna(cells[r]) THEN NaT
                  ELSE to_datetime(Str(StripChar(cells[r].s, Quote)))]))))

\* parse_note_format: district, initials and task of a note
parse_note_format(note) ==
    IF isna(note) THEN [district |-> None, initials |-> None, task |-> None]
    ELSE Given(DropRangePrefix(Strip(pystr(note)), TRUE), LAMBDA text :
         Given(Split(text, ">"), LAMBDA parts :
           [district |-> standardize_district(Str(Strip(parts[1]))),
            initials |-> IF Len(parts) > 1 THEN extract_student_initials(Str(text)) ELSE None,
            task |-> IF Len(parts) > 2 THEN extract_task(Str(text)) ELSE None]))

\* lines 446-473: the record of one (Hours, Notes) pair of a row, none when
\* the pair is passed over; raises when estimate_hours raises
UploadPair(date, h, note, hours_col, notes_col, contractor) ==
    IF isna(h) THEN Ok(<<>>)
    ELSE Given(estimate_hours(h), LAMBDA hours :
           IF hours.raised THEN RaisedInLoop
           ELSE IF Falsy(hours.val) THEN Ok(<<>>) ELSE
         Given(parse_note_format(note), LAMBDA parsed :
           Ok(<<[Date |-> date,
                 Psychologist |-> contractor,
                 Hours |-> hours.val,
                 District |-> parsed.district,
                 Student_Initials |-> parsed.initials,
                 Raw_Task |-> parsed.task,
                 Standardized_Task |-> standardize_task(parsed.task),
                 Time_Entry |-> h,
                 Note |-> note,
                 Hours_Column |-> hours_col,
                 Notes_Column |-> notes_col]>>)))

\* the records appended before the first step that raises, and whether one
\* raises
Collected(outcomes) ==
    Given({k \in 1..Len(outcomes) : outcomes[k].raised}, LAMBDA bad :
      [raised |-> bad # {},
       val |-> Concat([k \in 1..(IF bad = {} THEN Len(outcomes) ELSE Least(bad) - 1) |->
                          outcomes[k].val])])

\* lines 441-473: the pairs of the rows of df whose date is present, row by
\* row (dates: the Date of every row)
UploadRows(df, dates, contractor) ==
    Given2({c \in ColumnSet(df, <<"H","o","u","r","s">>) : ~StartsWith(df.columns[c], <<"H","o","u","r","s"," ","f","o","r">>)},
           ColumnSet(df, <<"N","o","t","e","s">>), LAMBDA hours_set, notes_set :
    Given2(Ascending(hours_set), Ascending(notes_set), LAMBDA hours_cols, notes_cols :
    Given2(Ascending({r \in 1..Len(df.rows) : ~isna(dates[r]) /\ dates[r].t # "nat"}),
           IF Len(hours_cols) < Len(notes_cols) THEN Len(hours_cols) ELSE Len(notes_cols),
           LAMBDA kept, npairs :
      IF kept = <<>> THEN [status |-> "skipped", val |-> <<>>] ELSE
    Given(Collected([j \in 1..(Len(kept) * npairs) |->
              Given2(kept[((j - 1) \div npairs) + 1], ((j - 1) % npairs) + 1, LAMBDA r, k :
                UploadPair(dates[r], df.rows[r][hours_cols[k]], df.rows[r][notes_cols[k]],
                           df.columns[hours_cols[k]], df.columns[notes_cols[k]], contractor))]),
          LAMBDA block :
      [status |-> IF block.raised THEN "error" ELSE "processed", val |-> block.val]))))

\* lines 406-480: one contractor block: status "skipped" (continue),
\* "processed" or "error" (the exception is caught), and the records it
\* appended to all_records
UploadBlock(section, contractor) ==
    \* cleaned_section
    Given(read_csv(Join(NonEmptyStripped(Split(section, "\n")), <<"\n">>)), LAMBDA csv :
      IF csv.raised THEN [status |-> "error", val |-> <<>>]
      ELSE IF csv.val.rows = <<>> \/ csv.val.columns = <<>> THEN [status |-> "skipped", val |-> <<>>]
      ELSE
    Given2(ColumnIndex(csv.val, <<"\"","D","a","t","e","\"">>), ColumnIndex(csv.val, <<"D","a","t","e">>),
           LAMBDA quoted, plain :
      IF quoted = 0 /\ plain = 0 THEN [status |-> "processed", val |-> <<>>] ELSE
    Given(DateColumn([r \in 1..Len(csv.val.rows) |->
                         csv.val.rows[r][IF quoted > 0 THEN quoted ELSE plain]],
                     IF plain = 0 THEN <<>>
                     ELSE [r \in 1..Len(csv.val.rows) |-> csv.val.rows[r][plain]]),
          LAMBDA dates :
      IF dates.raised THEN [status |-> "error", val |-> <<>>]
      ELSE UploadRows(csv.val, dates.val, contractor))))

\* lines 493-496: the hourly rates by first name
psychologist_rates ==
    << <<<<"N","a","n","c","y">>, 95>>, <<<<"K","a","t","h","l","e","e","n">>, 95>>, <<<<"D","a","v","i","d">>, 95>>, <<<<"M","e","l","i","s","s","a">>, 95>>,
       <<<<"E","m","i","l","y">>, 95>>, <<<<"T","a","r","i","k">>, 95>>, <<<<"A","n","g","e","l","a">>, 70>>, <<<<"C","a","r","o","l","i","n","e">>, 70>>,
       <<<<"J","u","l","i","e">>, 70>>, <<<<"L","e","x","i">>, 70>>, <<<<"S","h","i","r","l","e","y">>, 70>> >>

\* x.split()[0]: the first word of a text that has one
FirstWord(x) ==
    Given(LStrip(x), LAMBDA s :
      IF FirstSpace(s) = 0 THEN s ELSE SubSeq(s, 1, FirstSpace(s) - 1))

\* line 500: .map(psychologist_rates).fillna(100)
RateOf(first_name) ==
    Given({k \in 1..Len(psychologist_rates) : psychologist_rates[k][1] = first_name}, LAMBDA hits :
      IF hits = {} THEN 100 ELSE psychologist_rates[Least(hits)][2])

\* lines 482-509: no record is an error; .dt raises unless every Date is a
\* date; x.split()[0] raises for a name without a word; the table has the
\* Rate and the Cost of every record (Month and Week are not modelled)
FinishUpload(recs) ==
    IF recs = <<>> THEN Failed("no valid records")
    ELSE IF \E i \in 1..Len(recs) : recs[i].Date.t # "date" THEN Failed("dt accessor")
    ELSE IF \E i \in 1..Len(recs) : Strip(recs[i].Psychologist.s) = <<>> THEN Failed("first name")
    ELSE Returned([i \in 1..Len(recs) |->
             Given(RateOf(FirstWord(recs[i].Psychologist.s)), LAMBDA rate :
               [record |-> recs[i], Rate |-> rate, Cost |-> recs[i].Hours.v * rate])])


(***************************************************************************)
(* The state of the running call.  Every specification below runs one      *)
(* entry point of the repository; the variables of the other entry points  *)
(* keep their idle values.                                                 *)
(***************************************************************************)
VARIABLES
    pc,                 \* the position of the running call
    outcome,            \* what the call returned or raised, once it is over
    \* parse_gusto_file
    lines,              \* the lines of the file (f.readlines())
    idx,                \* the line the loop of Step 2 is at
    psychologist,       \* the staff name in effect
    block,              \* the accumulated lines of the current block
    block_header,       \* the line number of the header that began it (0: none)
    cleaned_rows,       \* the accumulated entries
    handed,             \* the calls of process_block so far, with their outcome
    \* the pair loop of process_block
    hours_cell,         \* h
    notes_cell,         \* n
    results,            \* the entries emitted for the pair
    \* process_gusto_file
    file_content,       \* the text of the upload
    sections,           \* re.split of the text at the block headers
    section_idx,        \* i of the loop over the sections
    current_contractor,
    all_records,
    processed_blocks,
    error_blocks,
    \* process_quickbooks_file
    qb_content,         \* the text of the billing export
    qb_df,              \* the table read from it
    row_idx,            \* the row the loop is at
    current_customer,
    records,
    \* extract_student_info
    line_phrases,
    line_description,
    student_info,
    \* standardize_district, standardize_task, estimate_hours called alone
    raw_text,           \* the candidate site text
    district,           \* what standardize_district returned for it
    task,               \* the raw task text
    std_task,           \* what standardize_task returned for it
    time_range,         \* the Hours text
    hours,              \* what estimate_hours returned for it
    task_category,      \* what categorize_task returned for std_task
    \* the reporting helpers
    time_df,            \* the table of time entries the helpers are given
    written,            \* what the last helper wrote to its output file
    helpers             \* the helpers called on the table so far

gustoVars == <<lines, idx, psychologist, block, block_header, cleaned_rows, handed>>
pairVars == <<hours_cell, notes_cell, results>>
uploadVars == <<file_content, sections, section_idx, current_contractor, all_records,
                processed_blocks, error_blocks>>
qbVars == <<qb_content, qb_df, row_idx, current_customer, records>>
infoVars == <<line_phrases, line_description, student_info>>
ruleVars == <<raw_text, district, task, std_task, time_range, hours, task_category>>
reportVars == <<time_df, written, helpers>>
vars == <<pc, outcome, gustoVars, pairVars, uploadVars, qbVars, infoVars, ruleVars, reportVars>>

GustoIdle ==
    /\ lines = <<>> /\ idx = 0 /\ psychologist = None /\ block = <<>>
    /\ block_header = 0 /\ cleaned_rows = <<>> /\ handed = <<>>
PairIdle == hours_cell = None /\ notes_cell = None /\ results = <<>>
UploadIdle ==
    /\ file_content = <<>> /\ sections = <<>> /\ section_idx = 0
    /\ current_contractor = None /\ all_records = <<>>
    /\ processed_blocks = 0 /\ error_blocks = 0
QBIdle ==
    /\ qb_content = <<>> /\ qb_df = EmptyFrame /\ row_idx = 0
    /\ current_customer = None /\ records = <<>>
InfoIdle == line_phrases = None /\ line_description = None /\ student_info = None
RuleIdle ==
    /\ raw_text = None /\ district = None /\ task = None /\ std_task = None
    /\ time_range = None /\ hours = None /\ task_category = None
ReportIdle == time_df = None /\ written = None /\ helpers = <<>>


(***************************************************************************)
(* parse_gusto_file (clean_gusto_multi.py, lines 216-273)                  *)
(***************************************************************************)
\* line 230: the line is a block header
IsBlockHeader(line) == Contains(line, <<"H","o","u","r","s"," ","f","o","r">>) /\ Contains(line, <<"(","C","o","n","t","r","a","c","t","o","r",")">>)

\* an accumulation that a block without entries resets
AccumulateOrReset(rows, result) ==
    IF result.raised \/ result.val = <<>> THEN <<>> ELSE rows \o result.val

\* a header whose name is never read
NoHeaderName(line) == Str(<<"U","n","k","n","o","w","n">>)

\* lines 238-239: re.search(r'Hours for (.+?) \(Contractor\)', line), the
\* leftmost match with the shortest name, or "Unknown"
HeaderName(line) ==
    LET pre == <<"H","o","u","r","s"," ","f","o","r"," ">>
        post == <<" ","(","C","o","n","t","r","a","c","t","o","r",")">>
        \* where a match that starts at i may end
        ends(i) == {j \in (i + Len(pre) + 1)..Len(line) :
                       /\ MatchAt(line, post, j)
                       /\ \A k \in (i + Len(pre))..(j - 1) : line[k] # "\n"}
    IN  Given({i \in 1..Len(line) : MatchAt(line, pre, i) /\ ends(i) # {}}, LAMBDA starts :
          IF starts = {} THEN Str(<<"U","n","k","n","o","w","n">>)
          ELSE Str(SubSeq(line, Least(starts) + Len(pre), Least(ends(Least(starts))) - 1)))

\* an accumulation that a block that raises empties
AccumulateOrLose(rows, result) ==
    IF result.raised THEN <<>> ELSE rows \o result.val

\* lines 232-235 and 245-248: cleaned_rows += process_block(...) under try
Accumulate(rows, result) ==
    IF result.raised THEN rows ELSE rows \o result.val

\* the record of one call process_block(block_lines, name): its arguments,
\* whether read_csv failed, the outcome of every row, and what it returned
\* or raised, which is process_block(block_lines, name) = RowLoop(rows)
Handoff(header, name, block_lines) ==
    Given(ReadBlock(block_lines), LAMBDA read :
    Given(FrameRows(read.df, name), LAMBDA rows :
      [header |-> header, name |-> name, lines |-> block_lines,
       read_failed |-> read.read_failed,
       rows |-> rows,
       result |-> RowLoop(rows)]))

\* Steps 4-6 without the empty-table return: no entry left is an error
build_table_strict(rows) ==
    Given(Select(rows, {i \in 1..Len(rows) : rows[i].Estimated_Hours.n > 0}), LAMBDA kept :
      IF kept = <<>> THEN RaisedInLoop ELSE Ok(kept))

\* Steps 4-5 without the filter of Step 6
build_table_unfiltered(rows) == Ok(rows)

\* Steps 4-6 (lines 250-273): every field of an entry is a scalar, so no
\* entry is dropped by Step 4; an empty list gives the empty table; the
\* entries with Estimated Hours > 0 are kept
build_table(rows) ==
    IF rows = <<>> THEN Ok(<<>>)
    ELSE Ok(Select(rows, {i \in 1..Len(rows) : rows[i].Estimated_Hours.n > 0}))

HeaderLine ==
    /\ pc = "lines" /\ idx <= Len(lines)
    /\ IsBlockHeader(lines[idx])
    /\ IF block # <<>>
       THEN /\ handed' = Append(handed, Handoff(block_header, psychologist, block))
            /\ cleaned_rows' = Accumulate(cleaned_rows, handed'[Len(handed')].result)
       ELSE UNCHANGED <<handed, cleaned_rows, ruleVars, reportVars>>
    /\ block' = <<>>
    /\ psychologist' = HeaderName(lines[idx])
    /\ block_header' = idx
    /\ idx' = idx + 1
    /\ UNCHANGED <<pc, outcome, lines, pairVars, uploadVars, qbVars, infoVars, ruleVars, reportVars>>

DataLine ==
    /\ pc = "lines" /\ idx <= Len(lines)
    /\ ~IsBlockHeader(lines[idx])
    /\ Strip(lines[idx]) # <<>>
    /\ block' = Append(block, lines[idx])
    /\ idx' = idx + 1
    /\ UNCHANGED <<pc, outcome, lines, psychologist, block_header, cleaned_rows, handed, pairVars, uploadVars, qbVars, infoVars, ruleVars, reportVars>>

BlankLine ==
    /\ pc = "lines" /\ idx <= Len(lines)
    /\ ~IsBlockHeader(lines[idx])
    /\ Strip(lines[idx]) = <<>>
    /\ idx' = idx + 1
    /\ UNCHANGED <<pc, outcome, lines, psychologist, block, block_header, cleaned_rows, handed, pairVars, uploadVars, qbVars, infoVars, ruleVars, reportVars>>

\* Step 3: the final block
FinalBlock ==
    /\ pc = "lines" /\ idx > Len(lines)
    /\ IF block # <<>>
       THEN /\ handed' = Append(handed, Handoff(block_header, psychologist, block))
            /\ cleaned_rows' = Accumulate(cleaned_rows, handed'[Len(handed')].result)
       ELSE UNCHANGED <<handed, cleaned_rows, ruleVars, reportVars>>
    /\ pc' = "clean"
    /\ UNCHANGED <<outcome, lines, idx, psychologist, block, block_header, pairVars, uploadVars, qbVars, infoVars, ruleVars, reportVars>>

\* Steps 4-6 and the return
BuildTable ==
    /\ pc = "clean"
    /\ outcome' = build_table(cleaned_rows)
    /\ pc' = "done"
    /\ UNCHANGED <<gustoVars, pairVars, uploadVars, qbVars, infoVars, ruleVars, reportVars>>

(***************************************************************************)
(* The files: up to MaxSegments segments of a time-tracking export.        *)
(***************************************************************************)
MaxSegments == 2

SegAnn == << <<"\"","H","o","u","r","s"," ","f","o","r"," ","A","n","n"," ","L","e","e"," ","(","C","o","n","t","r","a","c","t","o","r",")","\"","\n">>,
             <<"D","a","t","e",",","H","o","u","r","s",",","N","o","t","e","s","\n">>,
             <<"1","/","2","/","2","4",",","9",":","0","0"," ","A","M"," ","-"," ","1","0",":","0","0"," ","A","M",",","\"","9",":","0","0"," ","A","M"," ","-"," ","1","0",":","0","0"," ","A","M"," ",">"," ","L","a","w","r","e","n","c","e"," ","H","i","g","h"," ",">"," ","A","B",","," ","C","D"," ",">"," ","T","e","s","t","i","n","g"," ","-"," ","i","n","i","t","i","a","l"," ","s","e","s","s","i","o","n","\"","\n">> >>
SegBob == << <<"\"","H","o","u","r","s"," ","f","o","r"," ","B","o","b"," ","R","a","y"," ","(","C","o","n","t","r","a","c","t","o","r",")","\"","\n">>,
             <<"D","a","t","e",",","T","o","t","a","l"," ","h","o","u","r","s",",","H","o","u","r","s",",","N","o","t","e","s","\n">>,
             <<"1","/","3","/","2","4",",","2",".","0",",","1",":","0","0"," ","P","M"," ","-"," ","3",":","0","0"," ","P","M",",","L","H","S"," ",">"," ","E","F"," ",">"," ","R","e","p","o","r","t","\n">>,
             <<"1","/","4","/","2","4",",","0",",",",","\n">> >>
\* a row with more fields than the first one: read_csv raises
SegCy ==  << <<"\"","H","o","u","r","s"," ","f","o","r"," ","C","y"," ","M","o","s","s"," ","(","C","o","n","t","r","a","c","t","o","r",")","\"","\n">>,
             <<"D","a","t","e",",","H","o","u","r","s",",","N","o","t","e","s","\n">>,
             <<"1","/","5","/","2","4",",","8",":","0","0"," ","A","M"," ","-"," ","9",":","0","0"," ","A","M",",","S","a","l","e","m"," ",">"," ","G","H"," ",">"," ","O","b","s","e","r","v","a","t","i","o","n","\n">>,
             <<"1","/","6","/","2","4",",","a",",","b",",","c",",","d","\n">> >>
\* a header with no line after it
SegDee == << <<"\"","H","o","u","r","s"," ","f","o","r"," ","D","e","e"," ","O","h"," ","(","C","o","n","t","r","a","c","t","o","r",")","\"","\n">> >>
\* a Notes column of numbers: the second row raises in the row loop
SegEve == << <<"\"","H","o","u","r","s"," ","f","o","r"," ","E","v","e"," ","P","o","e"," ","(","C","o","n","t","r","a","c","t","o","r",")","\"","\n">>,
             <<"D","a","t","e",",","H","o","u","r","s",",","N","o","t","e","s","\n">>,
             <<"1","/","2","/","2","4",",","9",":","0","0"," ","A","M"," ","-"," ","1","0",":","0","0"," ","A","M",",","\n">>,
             <<"1","/","3","/","2","4",",","1",":","0","0"," ","P","M"," ","-"," ","2",":","0","0"," ","P","M",",","1","2","3","\n">> >>
\* a header line the name pattern does not match
SegNoName == << <<"H","o","u","r","s"," ","f","o","r"," ","(","C","o","n","t","r","a","c","t","o","r",")","\n">>,
                <<"D","a","t","e",",","H","o","u","r","s",",","N","o","t","e","s","\n">>,
                <<"1","/","8","/","2","4",",","2",":","0","0"," ","P","M"," ","-"," ","2",":","3","0"," ","P","M",",","S","a","l","e","m"," ",">"," ","I","J"," ",">"," ","C","o","n","s","u","l","t","\n">> >>
\* an entry without a time range: zero estimated hours
SegFay == << <<"\"","H","o","u","r","s"," ","f","o","r"," ","F","a","y"," ","I","t","o"," ","(","C","o","n","t","r","a","c","t","o","r",")","\"","\n">>,
             <<"D","a","t","e",",","H","o","u","r","s",",","N","o","t","e","s","\n">>,
             <<"1","/","9","/","2","4",",",",","S","a","l","e","m"," ",">"," ","K","L"," ",">"," ","S","c","o","r","i","n","g","\n">> >>
SegStray == << <<"T","i","m","e"," ","t","r","a","c","k","i","n","g"," ","e","x","p","o","r","t","\n">> >>
SegBlank == << <<"\n">> >>
\* the lines of a table before any header line
SegHeadless == << <<"D","a","t","e",",","H","o","u","r","s",",","N","o","t","e","s","\n">>,
                  <<"1","/","1","0","/","2","4",",","3",":","0","0"," ","P","M"," ","-"," ","4",":","0","0"," ","P","M",",","S","a","l","e","m"," ",">"," ","M","N"," ",">"," ","T","e","s","t","i","n","g","\n">> >>

Segments == {SegAnn, SegBob, SegCy, SegDee, SegEve, SegNoName, SegFay, SegStray, SegBlank,
             SegHeadless}

Files == {Concat(sel) : sel \in UNION {[1..n -> Segments] : n \in 0..MaxSegments}}

Init ==
    /\ pc = "lines" /\ outcome = None
    /\ lines \in Files
    /\ idx = 1 /\ psychologist = None /\ block = <<>> /\ block_header = 0
    /\ cleaned_rows = <<>> /\ handed = <<>>
    /\ PairIdle /\ UploadIdle /\ QBIdle /\ InfoIdle /\ RuleIdle /\ ReportIdle

Next == HeaderLine \/ DataLine \/ BlankLine \/ FinalBlock \/ BuildTable

Spec == Init /\ [][Next]_vars


(***************************************************************************)
(* The pair loop of process_block (lines 175-211) on one (Hours, Notes)    *)
(* pair of a row: the cells are drawn from the texts below.                *)
(***************************************************************************)
MaxSubNotes == 2

NoteA == <<"9",":","0","0"," ","A","M"," ","-"," ","1","0",":","0","0"," ","A","M"," ",">"," ","L","a","w","r","e","n","c","e"," ","H","i","g","h"," ",">"," ","A","B",","," ","C","D"," ",">"," ","T","e","s","t","i","n","g"," ","-"," ","i","n","i","t","i","a","l"," ","s","e","s","s","i","o","n">>
NoteB == <<"1",":","0","0"," ","P","M"," ","-"," ","1",":","3","0"," ","P","M"," ",">"," ","S","a","l","e","m"," ",">"," ","E","F"," ",">"," ","R","e","p","o","r","t"," ","w","r","i","t","i","n","g">>
NoteC == <<"L","H","S"," ",">"," ","G","H",","," ","I","J",","," ","K","L"," ",">"," ","S","c","o","r","i","n","g">>
NoteD == <<"t","r","a","v","e","l"," ","t","o"," ","s","c","h","o","o","l">>
SubNotes == {NoteA, NoteB, NoteC, NoteD}

\* a note cell: sub-notes on lines of their own, or one after the other on a line
NoteCells ==
    {NaN} \cup {Str(Join(sel, sep)) : sel \in UNION {[1..k -> SubNotes] : k \in 1..MaxSubNotes},
                                      sep \in {<<"\n">>, <<" ">>}}

HoursA == <<"9",":","0","0"," ","A","M"," ","-"," ","1","0",":","0","0"," ","A","M">>
HoursCells ==
    {NaN, Str(HoursA), Str(<<"1",":","0","0"," ","P","M"," ","-"," ","3",":","3","0"," ","P","M">>), Str(<<"1","1",":","0","0"," ","P","M"," ","-"," ","1",":","0","0"," ","A","M">>),
     Str(<<"8",":","0","0"," ","A","M"," ","-"," ","8",":","2","0"," ","A","M">>), Str(<<"2"," ","h","o","u","r","s">>)}

PairDate == DateVal(2024, 1, 2)
PairStaff == Str(<<"A","n","n"," ","L","e","e">>)

InitPair ==
    /\ pc = "pair" /\ outcome = None
    /\ hours_cell \in HoursCells /\ notes_cell \in NoteCells /\ results = <<>>
    /\ GustoIdle /\ UploadIdle /\ QBIdle /\ InfoIdle /\ RuleIdle /\ ReportIdle

\* one iteration of the loop over the pairs of a row
ProcessPair ==
    /\ pc = "pair"
    /\ outcome' = PairEntries(PairDate, hours_cell, notes_cell, PairStaff)
    /\ results' = outcome'.val
    /\ pc' = "emitted"
    /\ UNCHANGED <<hours_cell, notes_cell, gustoVars, uploadVars, qbVars, infoVars, ruleVars, reportVars>>

NextPair == ProcessPair

SpecPair == InitPair /\ [][NextPair]_vars


(***************************************************************************)
(* The description of one billing line: extract_student_info and the       *)
(* Service Bundle derived from its components (quickbooks_parser.py, lines *)
(* 182 and 226-229).  The descriptions are up to MaxPhrases phrases.       *)
(***************************************************************************)
MaxPhrases == 3

Phrases ==
    { <<"S","p","a","n","i","s","h"," ","B","i","l","i","n","g","u","a","l">>, <<"B","i","l","i","n","g","u","a","l">>, <<"H","a","i","t","i","a","n"," ","C","r","e","o","l","e">>, <<"S","p","a","n","i","s","h"," ","&"," ","H","a","i","t","i","a","n"," ","C","r","e","o","l","e">>,
      <<"P","s","y","c","h","o","e","d","u","c","a","t","i","o","n","a","l"," ","E","v","a","l","u","a","t","i","o","n">>, <<"C","o","g","n","i","t","i","v","e"," ","O","n","l","y">>, <<"I","E","P"," ","M","e","e","t","i","n","g">>,
      <<"R","e","m","o","t","e"," ","S","e","t","-","u","p">>, <<"#","4","5"," ","(","M","K",")">> }

\* the description written with the phrases sel, or a missing description
Described(sel) == IF sel = <<>> THEN NaN ELSE Str(Join(sel, <<" ">>))

InitInfo ==
    /\ pc = "line" /\ outcome = None
    /\ line_phrases \in UNION {[1..k -> Phrases] : k \in 0..MaxPhrases}
    /\ line_description = Described(line_phrases)
    /\ student_info = None
    /\ GustoIdle /\ PairIdle /\ UploadIdle /\ QBIdle /\ RuleIdle /\ ReportIdle

\* the fields of the record of a line that derive from its description
DescribeLine ==
    /\ pc = "line"
    /\ student_info' = Given(extract_student_info(line_description), LAMBDA info :
                          [info |-> info, bundle |-> ServiceBundle(info.components)])
    /\ pc' = "described"
    /\ UNCHANGED <<outcome, line_phrases, line_description, gustoVars, pairVars, uploadVars, qbVars, ruleVars, reportVars>>

NextInfo == DescribeLine

SpecInfo == InitInfo /\ [][NextInfo]_vars


(***************************************************************************)
(* process_quickbooks_file as a machine: the file is read, the rows are    *)
(* handled one by one, and the records are validated.                      *)
(***************************************************************************)
ReadExport ==
    /\ pc = "read"
    /\ \E t \in {ReadTable(qb_content)} :
           /\ qb_df' = t.frame
           /\ IF t.error # ""
              THEN /\ pc' = "done" /\ row_idx' = row_idx
                   /\ outcome' = IF t.missing # <<>> THEN MissingColumnsError(t.missing)
                                 ELSE Failed(t.error)
              ELSE pc' = "rows" /\ outcome' = outcome /\ row_idx' = 1
    /\ UNCHANGED <<qb_content, current_customer, records, gustoVars, pairVars, uploadVars, infoVars, ruleVars, reportVars>>

\* line 177-178: an empty row or a total row
SkipRow ==
    /\ pc = "rows" /\ row_idx <= Len(qb_df.rows)
    /\ SkippedRow(qb_df, qb_df.rows[row_idx])
    /\ row_idx' = row_idx + 1
    /\ UNCHANGED <<pc, outcome, qb_content, qb_df, current_customer, records,
                   gustoVars, pairVars, uploadVars, infoVars, ruleVars, reportVars>>

\* lines 180-207: the record of the row is appended
EmitRow ==
    /\ pc = "rows" /\ row_idx <= Len(qb_df.rows)
    /\ ~SkippedRow(qb_df, qb_df.rows[row_idx])
    /\ \E rec \in {RowRecord(qb_df, qb_df.rows[row_idx], current_customer)} :
           /\ ~rec.raised
           /\ records' = Append(records, rec.val)
    /\ current_customer' = CustomerOf(qb_df, qb_df.rows[row_idx], current_customer)
    /\ row_idx' = row_idx + 1
    /\ UNCHANGED <<pc, outcome, qb_content, qb_df, gustoVars, pairVars, uploadVars, infoVars, ruleVars, reportVars>>

\* lines 209-211: the exception of the row is absorbed (the customer of the
\* row was taken before it was raised)
AbsorbRow ==
    /\ pc = "rows" /\ row_idx <= Len(qb_df.rows)
    /\ ~SkippedRow(qb_df, qb_df.rows[row_idx])
    /\ RowRecord(qb_df, qb_df.rows[row_idx], current_customer).raised
    /\ current_customer' = CustomerOf(qb_df, qb_df.rows[row_idx], current_customer)
    /\ row_idx' = row_idx + 1
    /\ UNCHANGED <<pc, outcome, qb_content, qb_df, records, gustoVars, pairVars, uploadVars, infoVars, ruleVars, reportVars>>

\* lines 213-262
FinishExport ==
    /\ pc = "rows" /\ row_idx > Len(qb_df.rows)
    /\ outcome' = Finish(records)
    /\ pc' = "done"
    /\ UNCHANGED <<qb_content, qb_df, row_idx, current_customer, records,
                   gustoVars, pairVars, uploadVars, infoVars, ruleVars, reportVars>>

(***************************************************************************)
(* The billing exports: a preamble or none, the column names or none, and  *)
(* up to MaxRows rows.                                                     *)
(***************************************************************************)
MaxRows == 2

QBPreamble == <<"L","i","l","y","p","a","d"," ","L","e","a","r","n","i","n","g","\n","S","a","l","e","s"," ","b","y"," ","C","u","s","t","o","m","e","r"," ","D","e","t","a","i","l","\n","\n">>
QBHeader == <<"T","r","a","n","s","a","c","t","i","o","n"," ","d","a","t","e",",","T","r","a","n","s","a","c","t","i","o","n"," ","t","y","p","e",",","N","u","m",",","C","u","s","t","o","m","e","r",",","P","r","o","d","u","c","t","/","S","e","r","v","i","c","e"," ","f","u","l","l"," ","n","a","m","e",",","L","i","n","e"," ","d","e","s","c","r","i","p","t","i","o","n",",","S","e","r","v","i","c","e"," ","d","a","t","e",",","A","m","o","u","n","t",",","Q","u","a","n","t","i","t","y",",","S","a","l","e","s"," ","p","r","i","c","e","\n">>

RowInvoice == <<"0","1","/","0","5","/","2","0","2","4",",","I","n","v","o","i","c","e",",","1","0","0","1",",","L","a","w","r","e","n","c","e"," ","P","u","b","l","i","c"," ","S","c","h","o","o","l","s",",","E","v","a","l","u","a","t","i","o","n",",","P","s","y","c","h","o","e","d","u","c","a","t","i","o","n","a","l"," ","E","v","a","l","u","a","t","i","o","n"," ","#","4","5"," ","(","M","K",")",",","0","1","/","0","3","/","2","0","2","4",",","\"","$","1",",","2","0","0",".","0","0","\"",",","1",",","\"","$","1",",","2","0","0",".","0","0","\"","\n">>
\* no customer, quantity or price
RowMeeting == <<"0","1","/","0","6","/","2","0","2","4",",","I","n","v","o","i","c","e",",","1","0","0","2",",",",","M","e","e","t","i","n","g",",","I","E","P"," ","M","e","e","t","i","n","g"," ","(","J","D",")",",",",","$","3","0","0",".","0","0",",",",","\n">>
RowTotal == <<",","T","o","t","a","l"," ","f","o","r"," ","L","a","w","r","e","n","c","e"," ","P","u","b","l","i","c"," ","S","c","h","o","o","l","s",",",",",",",",",",",",","\"","$","1",",","5","0","0",".","0","0","\"",",",",","\n">>
\* a transaction date that is no date
RowPending == <<"p","e","n","d","i","n","g",",","I","n","v","o","i","c","e",",","1","0","0","3",",","S","a","l","e","m"," ","P","u","b","l","i","c"," ","S","c","h","o","o","l","s",",","E","v","a","l","u","a","t","i","o","n",",","E","v","a","l"," ","4","6"," ","(","A","B",")",",",",","$","5","0","0",".","0","0",",","1",",","$","5","0","0",".","0","0","\n">>
RowCredit == <<"0","1","/","0","7","/","2","0","2","4",",","C","r","e","d","i","t"," ","M","e","m","o",",","1","0","0","4",",","S","a","l","e","m"," ","P","u","b","l","i","c"," ","S","c","h","o","o","l","s",",","E","v","a","l","u","a","t","i","o","n",",","R","e","f","u","n","d"," ","(","C","D",")",",",",","-","$","1","5","0","0",".","0","0",",","1",",","-","$","1","5","0","0",".","0","0","\n">>
RowFree == <<"0","1","/","0","8","/","2","0","2","4",",","I","n","v","o","i","c","e",",","1","0","0","5",",","S","a","l","e","m"," ","P","u","b","l","i","c"," ","S","c","h","o","o","l","s",",","S","e","t","u","p",",","R","e","m","o","t","e"," ","S","e","t","-","u","p",",",",","$","0",".","0","0",",","1",",","$","0",".","0","0","\n">>
\* a service date that is no date
RowBadService == <<"0","1","/","0","9","/","2","0","2","4",",","I","n","v","o","i","c","e",",","1","0","0","6",",","C","h","e","l","s","e","a"," ","P","u","b","l","i","c"," ","S","c","h","o","o","l","s",",","E","v","a","l","u","a","t","i","o","n",",","B","i","l","i","n","g","u","a","l"," ","E","v","a","l","u","a","t","i","o","n"," ","(","E","F",")",",","T","B","D",",","$","9","0","0",".","0","0",",","1",",","$","9","0","0",".","0","0","\n">>
\* a row without a transaction date that names a customer
RowHeading == <<",",",",",","M","a","n","s","f","i","e","l","d"," ","P","u","b","l","i","c"," ","S","c","h","o","o","l","s",",",",",",",",",",",",","\n">>
\* a row of nine fields, for the column names without Service date or
\* without Amount (where it has no customer, quantity or price)
RowNine == <<"0","1","/","1","0","/","2","0","2","4",",","I","n","v","o","i","c","e",",","1","0","0","7",",",",","M","e","e","t","i","n","g",",","I","E","P"," ","M","e","e","t","i","n","g"," ","(","G","H",")",",","$","3","0","0",".","0","0",",",",","\n">>

\* a row without a customer
RowVisit == <<"0","1","/","1","1","/","2","0","2","4",",","I","n","v","o","i","c","e",",","1","0","0","8",",",",","M","e","e","t","i","n","g",",","I","E","P"," ","M","e","e","t","i","n","g"," ","(","K","L",")",",",",","$","3","0","0",".","0","0",",","1",",","$","3","0","0",".","0","0","\n">>

QBRows == {RowInvoice, RowMeeting, RowTotal, RowPending, RowCredit, RowFree,
           RowBadService, RowHeading, RowNine, RowVisit}

\* the column names without Service date, and without Amount
QBHeaderNoService == <<"T","r","a","n","s","a","c","t","i","o","n"," ","d","a","t","e",",","T","r","a","n","s","a","c","t","i","o","n"," ","t","y","p","e",",","N","u","m",",","C","u","s","t","o","m","e","r",",","P","r","o","d","u","c","t","/","S","e","r","v","i","c","e"," ","f","u","l","l"," ","n","a","m","e",",","L","i","n","e"," ","d","e","s","c","r","i","p","t","i","o","n",",","A","m","o","u","n","t",",","Q","u","a","n","t","i","t","y",",","S","a","l","e","s"," ","p","r","i","c","e","\n">>
QBHeaderNoAmount == <<"T","r","a","n","s","a","c","t","i","o","n"," ","d","a","t","e",",","T","r","a","n","s","a","c","t","i","o","n"," ","t","y","p","e",",","N","u","m",",","C","u","s","t","o","m","e","r",",","P","r","o","d","u","c","t","/","S","e","r","v","i","c","e"," ","f","u","l","l"," ","n","a","m","e",",","L","i","n","e"," ","d","e","s","c","r","i","p","t","i","o","n",",","S","e","r","v","i","c","e"," ","d","a","t","e",",","Q","u","a","n","t","i","t","y",",","S","a","l","e","s"," ","p","r","i","c","e","\n">>

QBFiles ==
    {pre \o head \o Concat(sel) :
        pre \in {<<>>, QBPreamble},
        head \in {<<>>, QBHeader, QBHeaderNoService, QBHeaderNoAmount},
        sel \in UNION {[1..k -> QBRows] : k \in 0..MaxRows}}

InitQB ==
    /\ pc = "read" /\ outcome = None
    /\ qb_content \in QBFiles
    /\ qb_df = EmptyFrame /\ row_idx = 0 /\ current_customer = None /\ records = <<>>
    /\ GustoIdle /\ PairIdle /\ UploadIdle /\ InfoIdle /\ RuleIdle /\ ReportIdle

NextQB == ReadExport \/ SkipRow \/ EmitRow \/ AbsorbRow \/ FinishExport

SpecQB == InitQB /\ [][NextQB]_vars


(***************************************************************************)
(* process_gusto_file as a machine: the text is split into sections, the   *)
(* sections are handled one by one (i is section_idx, the section is       *)
(* sections[i + 1]), and the records are validated.  process_gusto_upload  *)
(* (lines 514-548) hands a text to it and raises when it raises.           *)
(***************************************************************************)
SplitSections ==
    /\ pc = "split"
    /\ sections' = split_sections(file_content)
    /\ section_idx' = 0
    /\ pc' = "sections"
    /\ UNCHANGED <<outcome, file_content, current_contractor, all_records,
                   processed_blocks, error_blocks, gustoVars, pairVars, qbVars, infoVars, ruleVars, reportVars>>

\* lines 398-399: the text before the first header
SkipHeaderSection ==
    /\ pc = "sections" /\ section_idx < Len(sections)
    /\ section_idx = 0
    /\ section_idx' = section_idx + 1
    /\ UNCHANGED <<pc, outcome, file_content, sections, current_contractor, all_records,
                   processed_blocks, error_blocks, gustoVars, pairVars, qbVars, infoVars, ruleVars, reportVars>>

\* lines 401-403
ContractorName ==
    /\ pc = "sections" /\ section_idx < Len(sections)
    /\ section_idx % 2 = 1
    /\ current_contractor' = Str(Strip(sections[section_idx + 1]))
    /\ section_idx' = section_idx + 1
    /\ UNCHANGED <<pc, outcome, file_content, sections, all_records,
                   processed_blocks, error_blocks, gustoVars, pairVars, qbVars, infoVars, ruleVars, reportVars>>

\* lines 405-480
ContractorBlock ==
    /\ pc = "sections" /\ section_idx < Len(sections)
    /\ section_idx > 0 /\ section_idx % 2 = 0
    /\ \E b \in {UploadBlock(sections[section_idx + 1], current_contractor)} :
           /\ all_records' = all_records \o b.val
           /\ processed_blocks' = IF b.status = "processed" THEN processed_blocks + 1
                                  ELSE processed_blocks
           /\ error_blocks' = IF b.status = "error" THEN error_blocks + 1 ELSE error_blocks
    /\ section_idx' = section_idx + 1
    /\ UNCHANGED <<pc, outcome, file_content, sections, current_contractor,
                   gustoVars, pairVars, qbVars, infoVars, ruleVars, reportVars>>

\* lines 482-512
ReturnUpload ==
    /\ pc = "sections" /\ section_idx >= Len(sections)
    /\ outcome' = FinishUpload(all_records)
    /\ pc' = "done"
    /\ UNCHANGED <<uploadVars, gustoVars, pairVars, qbVars, infoVars, ruleVars, reportVars>>

(***************************************************************************)
(* The uploads: a first line or none, and up to MaxBlocks contractor       *)
(* blocks.                                                                 *)
(***************************************************************************)
MaxBlocks == 2

\* an Hours column of numbers: estimate_hours raises
SegGil == << <<"\"","H","o","u","r","s"," ","f","o","r"," ","G","i","l"," ","R","o","y"," ","(","C","o","n","t","r","a","c","t","o","r",")","\"","\n">>,
             <<"D","a","t","e",",","H","o","u","r","s",",","N","o","t","e","s","\n">>,
             <<"1","/","2","/","2","4",",","2",",","S","a","l","e","m"," ",">"," ","M","N"," ",">"," ","T","e","s","t","i","n","g","\n">> >>
\* years of two and of four digits: no format fits the column
SegHal == << <<"\"","H","o","u","r","s"," ","f","o","r"," ","H","a","l"," ","A","s","h"," ","(","C","o","n","t","r","a","c","t","o","r",")","\"","\n">>,
             <<"D","a","t","e",",","H","o","u","r","s",",","N","o","t","e","s","\n">>,
             <<"1","/","2","/","2","4",",","9",":","0","0"," ","A","M"," ","-"," ","1","0",":","0","0"," ","A","M",",","S","a","l","e","m"," ",">"," ","O","P"," ",">"," ","T","e","s","t","i","n","g","\n">>,
             <<"1","/","3","/","2","0","2","4",",","1",":","0","0"," ","P","M"," ","-"," ","2",":","0","0"," ","P","M",",","S","a","l","e","m"," ",">"," ","O","P"," ",">"," ","R","e","p","o","r","t","\n">> >>

UploadSegments == {SegAnn, SegBob, SegCy, SegDee, SegEve, SegFay, SegGil, SegHal}

UploadFiles ==
    {first \o Concat([k \in 1..Len(sel) |-> Concat(sel[k])]) :
        first \in {<<>>, <<"T","i","m","e"," ","t","r","a","c","k","i","n","g"," ","e","x","p","o","r","t","\n">>},
        sel \in UNION {[1..n -> UploadSegments] : n \in 0..MaxBlocks}}

InitUpload ==
    /\ pc = "split" /\ outcome = None
    /\ file_content \in UploadFiles
    /\ sections = <<>> /\ section_idx = 0 /\ current_contractor = None /\ all_records = <<>>
    /\ processed_blocks = 0 /\ error_blocks = 0
    /\ GustoIdle /\ PairIdle /\ QBIdle /\ InfoIdle /\ RuleIdle /\ ReportIdle

NextUpload == SplitSections \/ SkipHeaderSection \/ ContractorName \/ ContractorBlock \/ ReturnUpload

SpecUpload == InitUpload /\ [][NextUpload]_vars


(***************************************************************************)
(* standardize_district called alone, on a candidate site text.            *)
(***************************************************************************)
StandardizeDistrict ==
    /\ pc = "district"
    /\ district' = standardize_district(raw_text)
    /\ pc' = "returned"
    /\ UNCHANGED <<outcome, raw_text, task, std_task, time_range, hours,
                   task_category, gustoVars, pairVars, uploadVars, qbVars, infoVars,
                   reportVars>>

\* the candidates: the canonical names, the alias keys as written, in lower
\* case and in upper case, and texts that are neither, padded or not
OtherSites ==
    { <<"B","o","s","t","o","n">>, <<"l","a","w","r","e","n","c","e">>, <<"C","h","e","l","s","e","a"," ","H","i","g","h">>, <<" ","C","h","e","l","s","e","a"," ">>, <<"M","a","n","s","f","i","e","l","d"," ">>,
      <<"9",":","0","0"," ","A","M">>, <<>>, <<"L","y","n","n","f","i","e","l","d"," ","-"," ","O","P">>, <<"n","e","w"," ","h","e","i","g","h","t","s">>, <<"U","n","k","n","o","w","n">> }

SiteTexts ==
    approved_districts
    \cup {district_aliases[a][1] : a \in 1..Len(district_aliases)}
    \cup {LowerStr(district_aliases[a][1]) : a \in 1..Len(district_aliases)}
    \cup {UpperStr(district_aliases[a][1]) : a \in 1..Len(district_aliases)}
    \cup OtherSites

InitDistrict ==
    /\ pc = "district" /\ outcome = None
    /\ raw_text \in {Str(s) : s \in SiteTexts} \cup {NaN}
    /\ district = None /\ task = None /\ std_task = None
    /\ time_range = None /\ hours = None
    /\ task_category = None
    /\ GustoIdle /\ PairIdle /\ UploadIdle /\ QBIdle /\ InfoIdle /\ ReportIdle

NextDistrict == StandardizeDistrict

SpecDistrict == InitDistrict /\ [][NextDistrict]_vars

(***************************************************************************)
(* standardize_task called alone, on a raw task text of up to MaxTaskWords *)
(* words.                                                                  *)
(***************************************************************************)
StandardizeTask ==
    /\ pc = "task"
    /\ std_task' = standardize_task(task)
    /\ pc' = "returned"
    /\ UNCHANGED <<outcome, raw_text, district, task, time_range, hours,
                   task_category, gustoVars, pairVars, uploadVars, qbVars, infoVars,
                   reportVars>>

\* categorize_task called on what standardize_task returned (as process_block
\* does, line 207)
CategorizeTask ==
    /\ pc = "returned"
    /\ task_category' = Str(categorize_task(std_task))
    /\ pc' = "categorized"
    /\ UNCHANGED <<outcome, raw_text, district, task, std_task, time_range, hours,
                   gustoVars, pairVars, uploadVars, qbVars, infoVars, reportVars>>

MaxTaskWords == 2

TaskWords ==
    { <<"R","e","p","o","r","t">>, <<"t","e","s","t","i","n","g">>, <<"I","E","P">>, <<"m","e","e","t","i","n","g"," ","p","r","e","p">>, <<"E","v","a","l">>, <<"u","p","d","a","t","e","d">>,
      <<"p","a","r","e","n","t">>, <<"x","-","r","a","y">>, <<"d","r","i","v","e"," ","t","i","m","e">>, <<"T","e","c","h">>, <<"C","o","n","s","u","l","t","a","t","i","o","n">>, <<"o","n","b","o","a","r","d","i","n","g">> }

TaskTexts == {Join(sel, <<" ">>) : sel \in UNION {[1..k -> TaskWords] : k \in 1..MaxTaskWords}}

InitTask ==
    /\ pc = "task" /\ outcome = None
    /\ task \in {Str(s) : s \in TaskTexts} \cup {NaN, None}
    /\ std_task = None /\ raw_text = None /\ district = None
    /\ time_range = None /\ hours = None
    /\ task_category = None
    /\ GustoIdle /\ PairIdle /\ UploadIdle /\ QBIdle /\ InfoIdle /\ ReportIdle

NextTask == StandardizeTask \/ CategorizeTask

SpecTask == InitTask /\ [][NextTask]_vars

(***************************************************************************)
(* estimate_hours called alone, on an Hours cell: a range of two clocks    *)
(* "H:MM AM/PM - H:MM AM/PM", or another cell of the Hours column.         *)
(***************************************************************************)
EstimateHours ==
    /\ pc = "hours"
    /\ hours' = estimate_hours(time_range)
    /\ pc' = "returned"
    /\ UNCHANGED <<outcome, raw_text, district, task, std_task, time_range,
                   task_category, gustoVars, pairVars, uploadVars, qbVars, infoVars,
                   reportVars>>

ClockHours == {1, 9, 11, 12}
ClockMinutes == {0, 5, 20, 59}
Meridiems == {<<"A","M">>, <<"P","M">>}

\* the text "H:MM AM/PM" of a clock, and its minutes since midnight
ClockText(h, m, p) ==
    IntToStr(h) \o <<":">> \o (IF m < 10 THEN <<"0">> ELSE <<>>) \o IntToStr(m) \o <<" ">> \o p
ClockMinute(h, m, p) == ((h % 12) + (IF p = <<"P","M">> THEN 12 ELSE 0)) * 60 + m

Clocks ==
    {[text |-> ClockText(h, m, p), minute |-> ClockMinute(h, m, p)] :
        h \in ClockHours, m \in ClockMinutes, p \in Meridiems}

RangeText(start, end) == start.text \o <<" ","-"," ">> \o end.text

OtherHours ==
    {NaN, None, IntNum(8000), Num(7500), Str(<<"9"," ","A","M"," ","-"," ","5"," ","P","M">>), Str(<<"9",":","0","0"," ","A","M">>),
     Str(<<"9",":","0","0"," ","-"," ","1","0",":","0","0">>), Str(<<"8",".","5">>), Str(<<"9",":","0","0"," ","A","M"," ","-"," ","n","o","o","n">>),
     Str(<<"9",":","0","0"," ","A","M"," ","-"," ","1","0",":","0","0"," ","A","M"," ","-"," ","1","1",":","0","0"," ","A","M">>), Str(<<"1","3",":","0","0"," ","P","M"," ","-"," ","2",":","0","0"," ","P","M">>)}

InitHours ==
    /\ pc = "hours" /\ outcome = None
    /\ time_range \in {Str(RangeText(a, b)) : a, b \in Clocks} \cup OtherHours
    /\ hours = None /\ raw_text = None /\ district = None
    /\ task = None /\ std_task = None
    /\ task_category = None
    /\ GustoIdle /\ PairIdle /\ UploadIdle /\ QBIdle /\ InfoIdle /\ ReportIdle

NextHours == EstimateHours

SpecHours == InitHours /\ [][NextHours]_vars


(***************************************************************************)
(* The reporting helpers of clean_gusto_multi.py (lines 278-374).  A table *)
(* of time entries is the set of its column names and the list of its      *)
(* rows, each a function from the column names to cells; the helpers are   *)
(* given the table itself (a pandas DataFrame is passed by reference), so  *)
(* what they assign to df[...] is a change of the caller's table.          *)
(***************************************************************************)
\* df[name] = column: the column is added, or rewritten when it exists
WithColumn(df, name, column) ==
    [columns |-> df.columns \cup {name},
     rows |-> [i \in 1..Len(df.rows) |->
                  [c \in df.columns \cup {name} |->
                      IF c = name THEN column[i] ELSE df.rows[i][c]]]]

\* .dt.to_period("M"): the month of a date as year * 100 + month
MonthOf(date) == IF date.t = "date" THEN IntNum(date.v \div 100) ELSE NaT

\* lines 291 and 349: x.split()[0] if isinstance(x, str) else x
PsychologistClean(x) == IF x.t = "str" THEN Str(FirstWord(x.s)) ELSE x

\* lines 292 and 350: .map(psychologist_rates), NaN for a name not in the table
MappedRate(clean) ==
    Given({k \in 1..Len(psychologist_rates) :
              clean.t = "str" /\ psychologist_rates[k][1] = clean.s}, LAMBDA hits :
      IF hits = {} THEN NaN ELSE Num(1000 * psychologist_rates[Least(hits)][2]))

\* lines 294 and 351: df["Estimated Hours"] * df["Hourly Rate"], in
\* thousandths; NaN when a factor is missing
CostOf(est_hours, rate) ==
    IF IsNumber(est_hours) /\ IsNumber(rate)
    THEN Num((est_hours.v * rate.v) \div 1000) ELSE NaN

\* lines 290-294: the columns of the rate and of the cost; overwrite says
\* that existing columns are computed again (generate_case_financial_report)
WithCosts(df, overwrite) ==
    Given(IF overwrite \/ "Hourly Rate" \notin df.columns
          THEN WithColumn(
                 WithColumn(df, "Psychologist Clean",
                            [i \in 1..Len(df.rows) |->
                                PsychologistClean(df.rows[i]["Psychologist"])]),
                 "Hourly Rate",
                 [i \in 1..Len(df.rows) |->
                     MappedRate(PsychologistClean(df.rows[i]["Psychologist"]))])
          ELSE df, LAMBDA rated :
      IF overwrite \/ "Estimated Cost" \notin rated.columns
      THEN WithColumn(rated, "Estimated Cost",
                      [i \in 1..Len(rated.rows) |->
                          CostOf(rated.rows[i]["Estimated Hours"], rated.rows[i]["Hourly Rate"])])
      ELSE rated)

\* .sum() of the column name over the rows in group: missing values are skipped
RECURSIVE SumColumn(_, _, _)
SumColumn(df, group, name) ==
    IF group = {} THEN 0
    ELSE Given(Least(group), LAMBDA i :
           (IF IsNumber(df.rows[i][name]) THEN df.rows[i][name].v ELSE 0)
           + SumColumn(df, group \ {i}, name))

\* the rows of the table whose column name holds value
RowsWith(df, name, value) == {i \in 1..Len(df.rows) : df.rows[i][name] = value}

\* line 280: pd.to_datetime(df["Date"], errors="coerce"), a date stays as it is
DateOfEntry(x) == IF x.t \in {"date", "nat"} THEN x ELSE to_datetime(x)

\* lines 280-281 and 290-294: what generate_monthly_expense_summary assigns
\* to the table it is given
MonthlyTable(df) ==
    Given(WithColumn(df, "Date", [i \in 1..Len(df.rows) |-> DateOfEntry(df.rows[i]["Date"])]),
          LAMBDA dated :
      WithCosts(WithColumn(dated, "Month",
                           [i \in 1..Len(dated.rows) |-> MonthOf(dated.rows[i]["Date"])]),
                FALSE))

\* lines 297-301: the cost of every month (the file written), the months
\* without order
MonthlySummary(df) ==
    {[Month |-> m, Estimated_Cost |-> SumColumn(df, RowsWith(df, "Month", m), "Estimated Cost")] :
        m \in {df.rows[i]["Month"] : i \in 1..Len(df.rows)} \ {NaT}}

\* lines 338-343: the billing fee of a district
district_fees ==
    << <<<<"L","a","w","r","e","n","c","e">>, 1000>>, <<<<"G","r","e","e","n","f","i","e","l","d">>, 900>>, <<<<"A","s","h","l","a","n","d">>, 1000>>,
       <<<<"B","l","u","e"," ","H","i","l","l","s">>, 900>>, <<<<"B","r","i","d","g","e","w","a","t","e","r","-","R","a","y","n","h","a","m">>, 1875>>, <<<<"E","a","s","t","h","a","m","p","t","o","n">>, 1875>>,
       <<<<"H","o","l","b","r","o","o","k">>, 1500>>, <<<<"M","i","l","t","o","n">>, 1000>>, <<<<"R","a","n","d","o","l","p","h">>, 800>>, <<<<"S","a","l","e","m">>, 950>>,
       <<<<"T","e","w","k","s","b","u","r","y">>, 1500>>, <<<<"W","a","l","t","h","a","m">>, 1000>>, <<<<"W","a","r","e","h","a","m">>, 1200>>,
       <<<<"W","e","s","t"," ","S","p","r","i","n","g","f","i","e","l","d">>, 800>> >>

\* line 369: .map(district_fees), in thousandths
FeeOf(d) ==
    Given({k \in 1..Len(district_fees) : d.t = "str" /\ district_fees[k][1] = d.s}, LAMBDA hits :
      IF hits = {} THEN NaN ELSE Num(1000 * district_fees[Least(hits)][2]))

\* .fillna("")
FillEmpty(x) == IF isna(x) THEN <<>> ELSE x.s

\* line 346: df["Student Initials"].fillna("") + " | " + df["District"].fillna("")
CaseId(row) == Str(FillEmpty(row["Student Initials"]) \o <<" ","|"," ">> \o FillEmpty(row["District"]))

\* lines 346-351: what generate_case_financial_report assigns to the table
CaseTable(df) ==
    WithCosts(WithColumn(df, "Case ID", [i \in 1..Len(df.rows) |-> CaseId(df.rows[i])]), TRUE)

\* "first": the first value of the column in the group that is not missing
FirstOf(df, group, name) ==
    Given({i \in group : ~isna(df.rows[i][name])}, LAMBDA present :
      IF present = {} THEN NaN ELSE df.rows[Least(present)][name])

\* lines 354-373: the summary of every case (the file written), the cases
\* without order (the staff names and the dates of a case are not modelled)
CaseSummary(df) ==
    {Given2(RowsWith(df, "Case ID", id), FirstOf(df, RowsWith(df, "Case ID", id), "District"),
            LAMBDA group, d :
       Given2(SumColumn(df, group, "Estimated Cost"), FeeOf(d), LAMBDA cost, revenue :
         [Case_ID |-> id,
          Student_Initials |-> FirstOf(df, group, "Student Initials"),
          District |-> d,
          Estimated_Hours |-> SumColumn(df, group, "Estimated Hours"),
          Estimated_Cost |-> cost,
          Revenue |-> revenue,
          Profit |-> IF IsNumber(revenue) THEN Num(revenue.v - cost) ELSE NaN])) :
        id \in {df.rows[i]["Case ID"] : i \in 1..Len(df.rows)}}

\* lines 308-311 and 314-320: the rows with initials, and with the keys of
\* the pivot table all present
ValidRows(df) ==
    {i \in 1..Len(df.rows) :
        /\ ~isna(df.rows[i]["Student Initials"])
        /\ df.rows[i]["Student Initials"] # Str(<<"N","o","n","e">>)
        /\ ~isna(df.rows[i]["District"]) /\ ~isna(df.rows[i]["Psychologist"])
        /\ ~isna(df.rows[i]["Standardized Task"])}

\* the index of the pivot table for row i
PivotKey(df, i) ==
    <<df.rows[i]["Student Initials"], df.rows[i]["District"], df.rows[i]["Psychologist"]>>

\* lines 314-327: the hours of every (student, district, staff member) by
\* task, 0 for a task without hours, and their total (the file written)
TaskBreakdown(df) ==
    {[Key |-> key,
      Hours |-> [t \in {df.rows[i]["Standardized Task"] : i \in ValidRows(df)} |->
                    SumColumn(df, {i \in ValidRows(df) :
                                      /\ PivotKey(df, i) = key
                                      /\ df.rows[i]["Standardized Task"] = t}, "Estimated Hours")],
      Total_Hours |-> SumColumn(df, {i \in ValidRows(df) : PivotKey(df, i) = key},
                                "Estimated Hours")] :
        key \in {PivotKey(df, i) : i \in ValidRows(df)}}

(***************************************************************************)
(* The helpers called, one after the other, on one table of time entries   *)
(* (as main() does with the table parse_gusto_file returned): up to        *)
(* MaxCalls calls on a table of up to MaxEntries entries.                  *)
(***************************************************************************)
MaxCalls == 2
MaxEntries == 2

\* lines 278-302
MonthlyExpenseSummary ==
    /\ pc = "reports" /\ Len(helpers) < MaxCalls
    /\ time_df' = MonthlyTable(time_df)
    /\ written' = MonthlySummary(time_df')
    /\ helpers' = Append(helpers, "generate_monthly_expense_summary")
    /\ UNCHANGED <<pc, outcome, gustoVars, pairVars, uploadVars, qbVars, infoVars, ruleVars>>

\* lines 306-328
StudentTaskBreakdown ==
    /\ pc = "reports" /\ Len(helpers) < MaxCalls
    /\ written' = TaskBreakdown(time_df)
    /\ helpers' = Append(helpers, "generate_student_task_breakdown")
    /\ UNCHANGED <<pc, outcome, time_df, gustoVars, pairVars, uploadVars, qbVars, infoVars,
                   ruleVars>>

\* lines 330-374
CaseFinancialReport ==
    /\ pc = "reports" /\ Len(helpers) < MaxCalls
    /\ time_df' = CaseTable(time_df)
    /\ written' = CaseSummary(time_df')
    /\ helpers' = Append(helpers, "generate_case_financial_report")
    /\ UNCHANGED <<pc, outcome, gustoVars, pairVars, uploadVars, qbVars, infoVars, ruleVars>>

\* an entry of the table parse_gusto_file returns
TimeEntry(date, est_hours, initials, site, std, staff) ==
    [c \in {"Date", "Hours", "Note", "Estimated Hours", "Student Initials", "District",
            "Task", "Standardized Task", "Task Category", "Psychologist"} |->
        CASE c = "Date" -> date
          [] c = "Hours" -> Str(<<"9",":","0","0"," ","A","M"," ","-"," ","1","0",":","0","0"," ","A","M">>)
          [] c = "Note" -> Str(<<"n","o","t","e">>)
          [] c = "Estimated Hours" -> Num(est_hours)
          [] c = "Student Initials" -> initials
          [] c = "District" -> site
          [] c = "Task" -> std
          [] c = "Standardized Task" -> std
          [] c = "Task Category" -> Str(categorize_task(std))
          [] c = "Psychologist" -> staff]

\* staff members in the rate table (Nancy, Angela) and not in it (Ann), cases
\* with and without initials and district, two months
TimeEntries ==
    { TimeEntry(DateVal(2024, 1, 2), 1000, Str(<<"A","B">>), Str(<<"L","a","w","r","e","n","c","e">>),
                Str(<<"T","e","s","t","i","n","g">>), Str(<<"N","a","n","c","y"," ","D","r","e","w">>)),
      TimeEntry(DateVal(2024, 1, 15), 500, Str(<<"A","B">>), Str(<<"L","a","w","r","e","n","c","e">>),
                Str(<<"R","e","p","o","r","t"," ","W","r","i","t","i","n","g">>), Str(<<"A","n","n"," ","L","e","e">>)),
      TimeEntry(DateVal(2024, 2, 3), 2000, Str(<<"N","o","n","e">>), None,
                Str(<<"S","c","o","r","i","n","g">>), Str(<<"A","n","g","e","l","a"," ","Y","u">>)),
      TimeEntry(DateVal(2024, 2, 10), 1500, Str(<<"C","D">>), Str(<<"S","a","l","e","m">>),
                Str(<<"T","e","s","t","i","n","g">>), Str(<<"N","a","n","c","y"," ","D","r","e","w">>)),
      TimeEntry(DateVal(2024, 1, 20), 750, None, Str(<<"C","h","e","l","s","e","a">>),
                None, None) }

InitReports ==
    /\ pc = "reports" /\ outcome = None
    /\ \E rows \in UNION {[1..n -> TimeEntries] : n \in 1..MaxEntries} :
           time_df = [columns |-> {"Date", "Hours", "Note", "Estimated Hours",
                                   "Student Initials", "District", "Task",
                                   "Standardized Task", "Task Category", "Psychologist"},
                      rows |-> rows]
    /\ written = None /\ helpers = <<>>
    /\ GustoIdle /\ PairIdle /\ UploadIdle /\ QBIdle /\ InfoIdle /\ RuleIdle

NextReports == MonthlyExpenseSummary \/ StudentTaskBreakdown \/ CaseFinancialReport

SpecReports == InitReports /\ [][NextReports]_vars


(***************************************************************************)
(* Properties of the pair loop of process_block                            *)
(***************************************************************************)
RECURSIVE ProductOf(_)
ProductOf(S) == IF S = {} THEN 1 ELSE LET x == CHOOSE y \in S : TRUE IN x * ProductOf(S \ {x})

\* the sum of the entries' Estimated Hours, over the denominator den
RECURSIVE SumOver(_, _)
SumOver(entries, den) ==
    IF entries = <<>> THEN 0
    ELSE Head(entries).Estimated_Hours.n * (den \div Head(entries).Estimated_Hours.d)
         + SumOver(Tail(entries), den)

Denominators(entries) == {entries[i].Estimated_Hours.d : i \in 1..Len(entries)}

\* the duration of the pair's Hours text, in thousandths of an hour (0: none)
PairDuration ==
    LET est == estimate_hours(hours_cell)
    IN  IF est.raised \/ Falsy(est.val) THEN 0 ELSE est.val.v

\* C1: for a pair whose Hours text has a non-zero duration d, the Estimated
\* Hours of all the entries emitted for the pair (d / k / c_i each, for k
\* sub-notes with c_i case identifiers) sum back to d
C1_HoursSumBack ==
    (pc = "emitted" /\ PairDuration > 0)
        => /\ results # <<>>
           /\ SumOver(results, ProductOf(Denominators(results)))
                  = PairDuration * ProductOf(Denominators(results))

\* a pair with a duration, several sub-notes, and a sub-note of several cases
C1_Witness ==
    /\ pc = "emitted" /\ PairDuration > 0
    /\ Len(results) >= 4
    /\ \E i, j \in 1..Len(results) :
          /\ results[i].Note # results[j].Note
          /\ results[i].Estimated_Hours.d # results[j].Estimated_Hours.d

\* the pair of scenario A has been processed
ScenarioA == pc = "emitted" /\ hours_cell = Str(HoursA) /\ notes_cell = Str(NoteA)

\* C2: scenario A (Hours "9:00 AM - 10:00 AM", the note of NoteA) yields
\* 1.0 h, two entries for the cases AB and CD of 0.5 h each, site Lawrence,
\* raw task "Testing", standardized task "Testing" and category "Evaluation"
C2_ScenarioA ==
    ScenarioA =>
        /\ PairDuration = 1000
        /\ Len(results) = 2
        /\ results[1].Student_Initials = Str(<<"A","B">>)
        /\ results[2].Student_Initials = Str(<<"C","D">>)
        /\ \A i \in 1..2 :
              /\ results[i].Estimated_Hours = Frac(1000, 2)
              /\ results[i].District = Str(<<"L","a","w","r","e","n","c","e">>)
              /\ results[i].Task = Str(<<"T","e","s","t","i","n","g">>)
              /\ results[i].Standardized_Task = Str(<<"T","e","s","t","i","n","g">>)
              /\ results[i].Task_Category = <<"E","v","a","l","u","a","t","i","o","n">>

\* the sub-notes of the pair at hand (the whole cell when it has none)
SplitNotesOfPair ==
    Given(split_manual_note_entries(notes_cell), LAMBDA split :
      IF split.val = <<>> THEN <<notes_cell>>
      ELSE [k \in 1..Len(split.val) |-> Str(split.val[k])])

\* C22: a sub-note in which no case initials are found yields exactly one
\* entry, whose Student Initials is null (absent), and the entry has the
\* sub-note's full share of the hours (the duration over the number of
\* sub-notes).
C22_NullCasePlaceholder ==
    (pc = "emitted" /\ ~outcome.raised) =>
        \A k \in 1..Len(SplitNotesOfPair) :
            isna(extract_student_initials(SplitNotesOfPair[k])) =>
                /\ Cardinality({i \in 1..Len(results) : results[i].Note = SplitNotesOfPair[k]})
                   = Cardinality({j \in 1..Len(SplitNotesOfPair) :
                                     SplitNotesOfPair[j] = SplitNotesOfPair[k]})
                /\ \A i \in 1..Len(results) :
                       results[i].Note = SplitNotesOfPair[k] =>
                           /\ isna(results[i].Student_Initials)
                           /\ results[i].Estimated_Hours.n * Len(SplitNotesOfPair)
                              = PairDuration * results[i].Estimated_Hours.d

(***************************************************************************)
(* Properties of parse_gusto_file                                          *)
(***************************************************************************)
Headers == {h \in 1..Len(lines) : IsBlockHeader(lines[h])}

\* the first header after line h, or the line after the last one
NextHeader(h) ==
    IF \E k \in Headers : k > h
    THEN CHOOSE k \in Headers : k > h /\ \A m \in Headers : m > h => k <= m
    ELSE Len(lines) + 1

\* the non-blank lines between the header h and the next header
BodyOf(h) == Select(lines, {k \in (h + 1)..(NextHeader(h) - 1) : Strip(lines[k]) # <<>>})

\* the block of header h is over: the next header has been read, or the input has ended
BlockOver(h) == NextHeader(h) < idx \/ pc # "lines"

\* name is the staff name the header line carries ("Unknown" when it carries none)
NameOfHeader(line, name) ==
    LET named == \E i, j \in 1..Len(line) :
                    /\ MatchAt(line, <<"H","o","u","r","s"," ","f","o","r"," ">>, i) /\ MatchAt(line, <<" ","(","C","o","n","t","r","a","c","t","o","r",")">>, j)
                    /\ j > i + 10
    IN  /\ name.t = "str"
        /\ IF named
           THEN /\ name.s # <<>>
                /\ Contains(line, <<"H","o","u","r","s"," ","f","o","r"," ">> \o name.s \o <<" ","(","C","o","n","t","r","a","c","t","o","r",")">>)
                /\ ~Contains(name.s, <<" ","(","C","o","n","t","r","a","c","t","o","r",")">>)
           ELSE name.s = <<"U","n","k","n","o","w","n">>

\* the calls of process_block for the blocks that began with a header
HandedOfHeaders == Select(handed, {k \in 1..Len(handed) : handed[k].header # 0})

\* C5: for every block-header line, the non-blank lines between it and
\* the next header (or the end of input) are handed to process_block exactly
\* once, as one block, under the name of that header, in file order, as soon
\* as the next header is read or the input ends
C5_BlocksHandedOnce ==
    (pc \in {"lines", "clean", "done"}) =>
        LET due == Ascending({h \in Headers : BlockOver(h) /\ BodyOf(h) # <<>>})
            got == HandedOfHeaders
        IN  /\ Len(got) = Len(due)
            /\ \A k \in 1..Len(due) :
                  /\ got[k].header = due[k]
                  /\ got[k].lines = BodyOf(due[k])
                  /\ NameOfHeader(lines[due[k]], got[k].name)

\* two blocks of two different headers have been handed over
C5_Witness ==
    /\ pc = "done" /\ Len(handed) = 2
    /\ handed[1].header # 0 /\ handed[2].header > handed[1].header
    /\ handed[1].name # handed[2].name
    /\ handed[1].name # Str(<<"U","n","k","n","o","w","n">>)

\* the entries of the blocks that were read and whose rows did not raise
RECURSIVE EntriesOfGoodBlocks(_)
EntriesOfGoodBlocks(calls) ==
    IF calls = <<>> THEN <<>>
    ELSE (IF Head(calls).read_failed \/ Head(calls).result.raised THEN <<>>
          ELSE Head(calls).result.val) \o EntriesOfGoodBlocks(Tail(calls))

WithHours(entries) == Select(entries, {i \in 1..Len(entries) : entries[i].Estimated_Hours.n > 0})

\* C6: a block that is empty or that read_csv fails on is skipped without
\* an exception for the caller, and every valid block of the file, before or
\* after it, contributes its records to the table
C6_BadBlockSkipped ==
    /\ pc = "done" => /\ ~outcome.raised
                      /\ outcome.val = WithHours(EntriesOfGoodBlocks(handed))
    /\ \A k \in 1..Len(handed) : handed[k].read_failed => handed[k].result = Ok(<<>>)
    /\ pc \in {"lines", "clean", "done"} => cleaned_rows = EntriesOfGoodBlocks(handed)

\* a block that fails to read comes before a block whose records are in the table
C6_Witness ==
    /\ pc = "done" /\ Len(handed) = 2
    /\ handed[1].read_failed
    /\ ~handed[2].read_failed
    /\ handed[2].result.val # <<>>
    /\ \E i \in 1..Len(outcome.val) : outcome.val[i].Psychologist = handed[2].name

\* C7: a row whose handling raises is dropped alone: the entries of the
\* other rows of its block, before and after it, are still in the table
C7_RowDroppedAlone ==
    pc = "done" =>
        \A k \in 1..Len(handed) : \A r \in 1..Len(handed[k].rows) :
            ~handed[k].rows[r].raised =>
                \A i \in 1..Len(handed[k].rows[r].val) :
                    handed[k].rows[r].val[i].Estimated_Hours.n > 0 =>
                        \E j \in 1..Len(outcome.val) : outcome.val[j] = handed[k].rows[r].val[i]

\* C8: parse_gusto_file does not raise for an empty result: when no block
\* yields a record with hours, it returns the empty table
C8_EmptyTableNotError ==
    pc = "done" =>
        /\ ~outcome.raised
        /\ WithHours(cleaned_rows) = <<>> => outcome.val = <<>>

\* records were parsed and all were filtered out for zero hours
C8_Witness ==
    /\ pc = "done" /\ outcome = Ok(<<>>)
    /\ cleaned_rows # <<>>

\* the value of a field is a scalar: a missing value, a text, a number or a
\* date (no list, tuple, mapping or array)
ScalarCell(x) ==
    /\ DOMAIN x = {"t", "s", "v"}
    /\ x.t \in {"nan", "none", "str", "num", "int", "date", "nat"}

C26_LinesBeforeHeaderDropped ==
    /\ \A k \in 1..Len(handed) :
          /\ handed[k].header # 0
          /\ ~isna(handed[k].name)
    /\ pc = "done" =>
          \A i \in 1..Len(outcome.val) : ~isna(outcome.val[i].Psychologist)

\* process_block is called in this step and raises
BlockRaises ==
    /\ Len(handed') = Len(handed) + 1
    /\ handed'[Len(handed')].result.raised

\* C29: a block whose processing raises adds no entry to the accumulated
\* records and leaves those of the earlier blocks as they are, and the line
\* buffer is reset, so that the block after it holds its own lines only.
C29_BlockAllOrNothing ==
    [][/\ BlockRaises =>
             /\ cleaned_rows' = cleaned_rows
             /\ pc' = "lines" => block' = <<>>
       /\ \A k \in 1..(Len(handed') - 1) :
             handed'[k].result.raised =>
                 handed'[k + 1].lines = BodyOf(handed'[k + 1].header)]_vars

\* a block raised after a block with entries, which are still accumulated,
\* or before a block that was handed over with its own lines
C29_Witness ==
    /\ pc = "done" /\ Len(handed) = 2
    /\ \/ /\ handed[2].result.raised
          /\ handed[1].result.val # <<>>
          /\ cleaned_rows = handed[1].result.val
       \/ /\ handed[1].result.raised
          /\ handed[2].result.val # <<>>
          /\ cleaned_rows = handed[2].result.val


(***************************************************************************)
(* Claims about the description of a billing line (SpecInfo).              *)
(***************************************************************************)
ScenarioB == Str(<<"S","p","a","n","i","s","h"," ","B","i","l","i","n","g","u","a","l"," ","P","s","y","c","h","o","e","d","u","c","a","t","i","o","n","a","l"," ","E","v","a","l","u","a","t","i","o","n"," ","#","4","5"," ","(","M","K",")">>)

\* C3: the description "Spanish Bilingual Psychoeducational Evaluation #45
\* (MK)" yields the service type "Spanish Evaluation", the evaluation number
\* "45", the initials "MK" and the Service Bundle "Spanish Evaluation".
C3_ScenarioB ==
    (pc = "described" /\ line_description = ScenarioB) =>
        /\ student_info.info.service_type = Str(<<"S","p","a","n","i","s","h"," ","E","v","a","l","u","a","t","i","o","n">>)
        /\ student_info.info.eval_num = Str(<<"4","5">>)
        /\ student_info.info.initials = Str(<<"M","K">>)
        /\ student_info.bundle = <<"S","p","a","n","i","s","h"," ","E","v","a","l","u","a","t","i","o","n">>

\* the description holds a full-evaluation phrase and an IEP-meeting phrase
EvaluationWithMeeting ==
    /\ pc = "described" /\ line_description.t = "str"
    /\ \E phrase \in {<<"p","s","y","c","h","o","e","d","u","c","a","t","i","o","n","a","l"," ","e","v","a","l","u","a","t","i","o","n">>, <<"p","s","y","c","h","o","e","d"," ","e","v","a","l">>,
                      <<"p","s","y","c","h","o","e","d"," ","e","v","a","l","u","a","t","i","o","n">>, <<"p","s","y","c","h","o","l","o","g","i","c","a","l"," ","e","v","a","l">>,
                      <<"p","s","y","c","h","o","l","o","g","i","c","a","l"," ","e","v","a","l","u","a","t","i","o","n">>} :
           Contains(LowerStr(line_description.s), phrase)
    /\ Contains(LowerStr(line_description.s), <<"i","e","p">>)
    /\ \/ Contains(LowerStr(line_description.s), <<"m","e","e","t","i","n","g">>)
       \/ Contains(LowerStr(line_description.s), <<"p","r","e","s","e","n","t","a","t","i","o","n">>)

C9_EmptyUploadNotError ==
    (pc = "done" /\ all_records = <<>>) => (~outcome.raised /\ outcome.table = <<>>)

(***************************************************************************)
(* Claims about process_quickbooks_file (SpecQB).                          *)
(***************************************************************************)
\* C10: for a billing file whose header row is found and which has all
\* required columns, the exception of a row is absorbed (the rows after it
\* are still handled), and the call raises only if no record survives.
C10_RaisesOnlyWithoutRecords ==
    /\ (pc = "rows" /\ row_idx <= Len(qb_df.rows)) => outcome = None
    /\ (pc = "done" /\ HeaderStart(qb_content) # 0 /\ MissingColumns(qb_df) = <<>>) =>
           (outcome.raised => records = <<>>)

\* the column names of the detected header row, stripped
HeaderNames ==
    Given(HeaderStart(qb_content), LAMBDA start :
    Given({j \in start..Len(qb_content) : qb_content[j] = "\n"}, LAMBDA ends :
    Given(Split(SubSeq(qb_content, start,
                       IF ends = {} THEN Len(qb_content) ELSE Least(ends) - 1), ","),
          LAMBDA names : {Strip(names[k]) : k \in 1..Len(names)})))

\* the required columns the detected header row lacks, in the order of
\* required_columns
LackingColumns ==
    Select(required_columns,
           {i \in 1..Len(required_columns) : required_columns[i] \notin HeaderNames})

\* C11: when the detected header lacks required columns (and the rows parse
\* as CSV), process_quickbooks_file raises an error that lists exactly the
\* required columns the header lacks, and returns no table.
C11_MissingColumnsNamed ==
    (/\ pc = "done" /\ HeaderStart(qb_content) # 0
     /\ LackingColumns # <<>> /\ outcome.error # "read_csv") =>
        /\ outcome.raised /\ outcome.table = <<>>
        /\ outcome.error = "missing columns"
        /\ outcome.columns = LackingColumns

(***************************************************************************)
(* Further claims about the description of a billing line (SpecInfo).      *)
(***************************************************************************)
add_on_components ==
    << <<"A","c","a","d","e","m","i","c"," ","T","e","s","t","i","n","g"," ","(","A","d","d","-","o","n",")">>, <<"I","E","P"," ","M","e","e","t","i","n","g"," ","(","A","d","d","-","o","n",")">>, <<"R","e","m","o","t","e"," ","S","e","t","u","p">> >>

\* C16: in the component list returned by extract_service_components no
\* add-on component (Academic Testing, IEP Meeting, Remote Setup) is present
\* together with a primary evaluation component.
C16_NoAddOnBesidePrimary ==
    pc = "described" =>
        ~\E i, j \in 1..Len(student_info.info.components) :
            /\ InSeq(student_info.info.components[i], primary_evaluations)
            /\ InSeq(student_info.info.components[j], add_on_components)

\* the pieces of a bundle string between its " + " separators
RECURSIVE BundlePieces(_)
BundlePieces(bundle) ==
    IF bundle = <<>> THEN <<>>
    ELSE IF \E i \in 1..Len(bundle) : MatchAt(bundle, <<" ","+"," ">>, i)
    THEN Given(CHOOSE i \in 1..Len(bundle) :
                   /\ MatchAt(bundle, <<" ","+"," ">>, i)
                   /\ \A k \in 1..(i - 1) : ~MatchAt(bundle, <<" ","+"," ">>, k),
               LAMBDA i : <<SubSeq(bundle, 1, i - 1)>>
                          \o BundlePieces(SubSeq(bundle, i + 3, Len(bundle))))
    ELSE <<bundle>>

\* the phrases of the line with two of them exchanged; every order of the
\* phrases is reached by such exchanges, and each of them is a line as well
Rearranged ==
    {[k \in 1..Len(line_phrases) |->
         IF k = a THEN line_phrases[b] ELSE IF k = b THEN line_phrases[a] ELSE line_phrases[k]] :
        a, b \in 1..Len(line_phrases)}

\* pieces are in strictly ascending order and are exactly the components
SortedSetOf(pieces, components) ==
    /\ \A i \in 1..(Len(pieces) - 1) : StrLess(pieces[i], pieces[i + 1])
    /\ {pieces[i] : i \in 1..Len(pieces)} = {components[i] : i \in 1..Len(components)}

\* C17: the Service Bundle of a record is the sorted, de-duplicated join of
\* the components detected in its description: its pieces are in strictly
\* ascending order and are exactly the components; it is the same when two
\* phrases of the description are exchanged, hence in every order of them; a line with no component has a
\* record with the empty bundle.
C17_BundleSortedSet ==
    pc = "described" =>
        /\ SortedSetOf(BundlePieces(student_info.bundle), student_info.info.components)
        /\ \A sel \in Rearranged :
               ServiceBundle(extract_service_components(Described(sel))) = student_info.bundle
        /\ student_info.info.components = <<>> => student_info.bundle = <<>>

\* a line whose components are detected in descending order, a line with the
\* same phrases in two orders, and a line without a component
C17_Witness ==
    /\ pc = "described"
    /\ \/ /\ line_phrases = << <<"R","e","m","o","t","e"," ","S","e","t","-","u","p">>, <<"S","p","a","n","i","s","h"," ","B","i","l","i","n","g","u","a","l">> >>
          /\ student_info.info.components = << <<"S","p","a","n","i","s","h"," ","E","v","a","l","u","a","t","i","o","n">>, <<"R","e","m","o","t","e"," ","S","e","t","u","p">> >>
          /\ student_info.bundle = <<"R","e","m","o","t","e"," ","S","e","t","u","p"," ","+"," ","S","p","a","n","i","s","h"," ","E","v","a","l","u","a","t","i","o","n">>
       \/ /\ line_phrases = << <<"#","4","5"," ","(","M","K",")">> >>
          /\ student_info.info.components = <<>>
          /\ student_info.bundle = <<>>

(***************************************************************************)
(* Claims about the rows of process_quickbooks_file (SpecQB).              *)
(***************************************************************************)
\* the Customer value of row r of the table
OwnCustomer(r) == Cell(qb_df, qb_df.rows[r], <<"C","u","s","t","o","m","e","r">>)

\* the customer a record of row r has by the claim, the rows in earlier
\* being those whose customer is remembered: the row's own Customer when it
\* is not empty, else that of the last of the rows in earlier, before r, that
\* has one, else none
CarriedCustomer(r, earlier) ==
    IF ~isna(OwnCustomer(r)) THEN OwnCustomer(r)
    ELSE Given({q \in earlier : q < r /\ ~isna(OwnCustomer(q))}, LAMBDA named :
           IF named = {} THEN None ELSE OwnCustomer(Greatest(named)))

\* a record of the row at row_idx is appended in this step
RecordEmitted ==
    /\ pc = "rows" /\ row_idx <= Len(qb_df.rows)
    /\ Len(records') = Len(records) + 1

\* C18 as stated: the Customer of each emitted record is the row's own
\* Customer when it is not empty, and otherwise the last non-empty Customer
\* on an earlier row of the file; it has none only if no earlier row has one.
C18_CustomerFromAnyRow ==
    [][RecordEmitted =>
          records'[Len(records')].Customer
              = CarriedCustomer(row_idx, 1..Len(qb_df.rows))]_vars

\* C18 as amended: the earlier rows are those that were not skipped (a row
\* with a blank Transaction date or a "total" Transaction type is skipped).
C18_CustomerFromDataRows ==
    [][RecordEmitted =>
          records'[Len(records')].Customer
              = CarriedCustomer(row_idx, {q \in 1..Len(qb_df.rows) :
                                             ~SkippedRow(qb_df, qb_df.rows[q])})]_vars

\* a record took its customer from the row before it, and a record has none
\* although a skipped row before it names one
C18_Witness ==
    /\ pc = "done" /\ Len(qb_df.rows) = 2 /\ Len(records) >= 1
    /\ isna(OwnCustomer(2))
    /\ \/ /\ Len(records) = 2
          /\ records[2].Customer = Str(<<"L","a","w","r","e","n","c","e"," ","P","u","b","l","i","c"," ","S","c","h","o","o","l","s">>)
          /\ records[1].Customer = Str(<<"L","a","w","r","e","n","c","e"," ","P","u","b","l","i","c"," ","S","c","h","o","o","l","s">>)
       \/ /\ OwnCustomer(1) = Str(<<"M","a","n","s","f","i","e","l","d"," ","P","u","b","l","i","c"," ","S","c","h","o","o","l","s">>)
          /\ SkippedRow(qb_df, qb_df.rows[1])
          /\ records[Len(records)].Customer = None

\* the row at row_idx is a data row (it is not skipped) whose Transaction
\* date is a date
DataRowAtHand ==
    /\ pc = "rows" /\ row_idx <= Len(qb_df.rows)
    /\ ~SkippedRow(qb_df, qb_df.rows[row_idx])
    /\ to_datetime(Cell(qb_df, qb_df.rows[row_idx], <<"T","r","a","n","s","a","c","t","i","o","n"," ","d","a","t","e">>)) # NaT

\* the Service date of the row when the column is present and the value is a
\* date, the Transaction date in every other case
DateByClaim(row) ==
    Given(to_datetime(Cell(qb_df, row, <<"S","e","r","v","i","c","e"," ","d","a","t","e">>)), LAMBDA service :
      IF service # NaT THEN service
      ELSE to_datetime(Cell(qb_df, row, <<"T","r","a","n","s","a","c","t","i","o","n"," ","d","a","t","e">>)))

\* C19: every data row is emitted, and the Date of its record is the Service
\* date when that column is present and its value parseable, and the
\* Transaction date when the column is absent or the value is empty or
\* unparseable.
C19_DateOfEveryDataRow ==
    [][DataRowAtHand =>
          /\ Len(records') = Len(records) + 1
          /\ records'[Len(records')].Date = DateByClaim(qb_df.rows[row_idx])]_vars

\* C27: for every description extract_service_components returns at most
\* one primary evaluation component, and no component twice.
C27_OnePrimaryNoDuplicate ==
    pc = "described" =>
        /\ Cardinality({i \in 1..Len(student_info.info.components) :
                           InSeq(student_info.info.components[i], primary_evaluations)}) <= 1
        /\ \A i, j \in 1..Len(student_info.info.components) :
               i # j => student_info.info.components[i] # student_info.info.components[j]

\* a description with the phrases of two primary evaluations and of a set-up
C27_Witness ==
    /\ pc = "described"
    /\ line_phrases = << <<"S","p","a","n","i","s","h"," ","B","i","l","i","n","g","u","a","l">>, <<"P","s","y","c","h","o","e","d","u","c","a","t","i","o","n","a","l"," ","E","v","a","l","u","a","t","i","o","n">>,
                         <<"R","e","m","o","t","e"," ","S","e","t","-","u","p">> >>
    /\ student_info.info.components = << <<"S","p","a","n","i","s","h"," ","E","v","a","l","u","a","t","i","o","n">>, <<"R","e","m","o","t","e"," ","S","e","t","u","p">> >>

\* C30: a required column that the header row names is never listed in the
\* missing-columns error of process_quickbooks_file, whatever its cells hold.
C30_MissingOnlyIfUnnamed ==
    (/\ pc = "done" /\ HeaderStart(qb_content) # 0
     /\ outcome.raised /\ outcome.error = "missing columns") =>
        \A i \in 1..Len(outcome.columns) : outcome.columns[i] \notin HeaderNames


(***************************************************************************)
(* Claims about standardize_district (SpecDistrict).                       *)
(***************************************************************************)
\* C12: for every name of the canonical allow-list, standardize_district
\* returns that name unchanged.
C12_CanonicalUnchanged ==
    (pc = "returned" /\ raw_text.t = "str" /\ raw_text.s \in approved_districts) =>
        district = raw_text

\* C13: for every key of the alias table, as written, in lower case and in
\* upper case, standardize_district returns the canonical name the table
\* maps the key to.
C13_AliasAnyCase ==
    (pc = "returned" /\ raw_text.t = "str") =>
        \A a \in 1..Len(district_aliases) :
            raw_text.s \in {district_aliases[a][1], LowerStr(district_aliases[a][1]),
                            UpperStr(district_aliases[a][1])} =>
                district = Str(district_aliases[a][2])

\* no alias key occurs in the candidate, whatever the letter case
NoAliasInCandidate ==
    /\ pc = "returned" /\ raw_text.t = "str"
    /\ \A a \in 1..Len(district_aliases) :
           ~Contains(LowerStr(raw_text.s), LowerStr(district_aliases[a][1]))

\* C14 as stated: a candidate that contains no alias key and is not exactly
\* a member of the allow-list yields null.
C14_UnrecognizedIsNull ==
    (NoAliasInCandidate /\ raw_text.s \notin approved_districts) => district = None

\* C14 as amended: a candidate that contains no alias key and is not, once
\* the white space around it is stripped, a member of the allow-list yields
\* null, never the text itself.
C14_UnrecognizedStrippedIsNull ==
    (NoAliasInCandidate /\ Strip(raw_text.s) \notin approved_districts) => district = None

\* a text that is no alias and no canonical name has been normalized
C14_Witness ==
    /\ NoAliasInCandidate /\ raw_text = Str(<<"B","o","s","t","o","n">>)
    /\ district = None

(***************************************************************************)
(* Claims about standardize_task (SpecTask).                               *)
(***************************************************************************)
\* a trigger of rule r occurs in the lower-cased task text
RuleOccurs(r) ==
    \E k \in 1..Len(task_rules[r].triggers) :
        Contains(LowerStr(task.s), task_rules[r].triggers[k])

\* C15: for every non-null task text standardize_task returns one value:
\* the label of the first rule, in the order of the rules, a trigger of which
\* occurs in the lower-cased text, or the title-cased text when no trigger
\* occurs in it.
C15_FirstRuleOrTitle ==
    (pc = "returned" /\ task.t = "str") =>
        /\ std_task.t = "str"
        /\ \A r \in 1..Len(task_rules) :
               (RuleOccurs(r) /\ \A q \in 1..(r - 1) : ~RuleOccurs(q)) =>
                   std_task.s = task_rules[r].label
        /\ (\A r \in 1..Len(task_rules) : ~RuleOccurs(r)) => std_task.s = Title(task.s)

\* a text in which the triggers of two rules occur, and a text without one
C15_Witness ==
    \/ /\ pc = "returned" /\ task = Str(<<"I","E","P"," ","m","e","e","t","i","n","g"," ","p","r","e","p">>)
       /\ std_task = Str(<<"M","e","e","t","i","n","g"," ","P","r","e","p">>)
    \/ /\ pc = "returned" /\ task = Str(<<"x","-","r","a","y"," ","d","r","i","v","e"," ","t","i","m","e">>)
       /\ std_task = Str(<<"X","-","R","a","y"," ","D","r","i","v","e"," ","T","i","m","e">>)

(***************************************************************************)
(* Claims about estimate_hours (SpecHours).                                *)
(***************************************************************************)
\* h thousandths of an hour is m minutes rounded to 3 decimals of an hour:
\* it is within half a thousandth of m / 60 hours
RoundedHoursOf(h, m) == 6 * h - 3 <= 100 * m /\ 100 * m <= 6 * h + 3

\* C20: for every valid "H:MM AM/PM - H:MM AM/PM" string estimate_hours
\* returns (end - start) in hours rounded to 3 decimals when end >= start,
\* and (end + 24h - start) when end < start; the result is in [0, 24).
C20_DurationWithinDay ==
    pc = "returned" =>
        \A a, b \in Clocks :
            time_range = Str(RangeText(a, b)) =>
                /\ ~hours.raised /\ hours.val.t = "num"
                /\ RoundedHoursOf(hours.val.v,
                                  IF b.minute >= a.minute THEN b.minute - a.minute
                                  ELSE b.minute + 1440 - a.minute)
                /\ 0 <= hours.val.v /\ hours.val.v < 24000

\* a range that ends after midnight
C20_Witness ==
    /\ pc = "returned"
    /\ time_range = Str(<<"1","1",":","2","0"," ","P","M"," ","-"," ","1",":","0","0"," ","A","M">>)
    /\ hours = Ok(Num(1667))

\* C21: estimate_hours never raises to its caller: for every value an Hours
\* cell can hold (missing, a range, text without a dash or with several, a
\* malformed time, a bare number) it returns a duration or null.
C21_NeverRaises ==
    pc = "returned" =>
        /\ ~hours.raised
        /\ hours.val = None \/ hours.val.t = "num"

(***************************************************************************)
(* Claims about categorize_task after standardize_task (SpecTask).         *)
(***************************************************************************)
\* C28: for every non-null task text the category of the standardized task
\* is "Uncategorized" exactly when no trigger rule matched: the label of
\* every rule is an Evaluation or an Admin task, and the title-cased text of
\* the fallback is neither.
C28_UncategorizedIffFallback ==
    (pc = "categorized" /\ task.t = "str") =>
        /\ task_category = Str(<<"U","n","c","a","t","e","g","o","r","i","z","e","d">>)
           <=> \A r \in 1..Len(task_rules) : ~RuleOccurs(r)
        /\ task_category \in {Str(<<"U","n","c","a","t","e","g","o","r","i","z","e","d">>), Str(<<"E","v","a","l","u","a","t","i","o","n">>), Str(<<"A","d","m","i","n">>)}
        /\ \A r \in 1..Len(task_rules) : task_rules[r].label \in eval_tasks \cup admin_tasks
        /\ (\A r \in 1..Len(task_rules) : ~RuleOccurs(r))
           => Title(task.s) \notin eval_tasks \cup admin_tasks

\* a task of the fallback, and a task of an administrative rule
C28_Witness ==
    /\ pc = "categorized"
    /\ \/ /\ task = Str(<<"x","-","r","a","y"," ","C","o","n","s","u","l","t","a","t","i","o","n">>)
          /\ std_task = Str(<<"X","-","R","a","y"," ","C","o","n","s","u","l","t","a","t","i","o","n">>)
          /\ task_category = Str(<<"U","n","c","a","t","e","g","o","r","i","z","e","d">>)
       \/ /\ task = Str(<<"o","n","b","o","a","r","d","i","n","g">>)
          /\ std_task = Str(<<"O","n","b","o","a","r","d","i","n","g">>)
          /\ task_category = Str(<<"A","d","m","i","n">>)


(***************************************************************************)
(* Claims about the reporting helpers (SpecReports).                       *)
(***************************************************************************)
\* a helper that computes costs has been called on the table
CostsComputed ==
    \E k \in 1..Len(helpers) :
        helpers[k] \in {"generate_monthly_expense_summary", "generate_case_financial_report"}

\* C24: every cost computation over time entries uses a default hourly rate
\* for a staff member whose first name is not in the rate table: an entry
\* with hours has a numeric cost, its hours times a rate (the rate of the
\* table for a name that is in it).
C24_CostForEveryEntry ==
    CostsComputed =>
        \A i \in 1..Len(time_df.rows) :
            IsNumber(time_df.rows[i]["Estimated Hours"]) =>
                /\ IsNumber(time_df.rows[i]["Hourly Rate"])
                /\ time_df.rows[i]["Hourly Rate"].v > 0
                /\ IsNumber(time_df.rows[i]["Estimated Cost"])
                /\ time_df.rows[i]["Estimated Cost"].v * 1000
                   = time_df.rows[i]["Estimated Hours"].v * time_df.rows[i]["Hourly Rate"].v
                /\ \A k \in 1..Len(psychologist_rates) :
                       time_df.rows[i]["Psychologist"].t = "str"
                       /\ FirstWord(time_df.rows[i]["Psychologist"].s) = psychologist_rates[k][1]
                       => time_df.rows[i]["Hourly Rate"].v = 1000 * psychologist_rates[k][2]

\* C25: a reporting helper leaves the table it is given unchanged: no column
\* is added and no value is rewritten.
C25_HelpersLeaveTable ==
    [][helpers' # helpers => time_df' = time_df]_vars

=============================================================================
